---- MODULE Spec2Model ----
(***************************************************************************)
(* Model of the cart session core of telecom-cart-experience-api:          *)
(*   SalesforceCartClientMock  (in-memory TTL store, lazy expiration,      *)
(*                              periodic sweep)                            *)
(*   CartService               (cart lifecycle and item mutations)         *)
(*   StandardPricingStrategy   (subtotal / tax / total)                    *)
(*                                                                         *)
(* Money is counted in integer cents, time in minutes (the unit of         *)
(* ttlMinutes).  Math.round on a non-negative number is round-half-up.     *)
(*                                                                         *)
(* JavaScript objects are modelled with their sharing: the store copies a  *)
(* cart with the spread operator, which copies the cart's own fields but   *)
(* not the items array, so a cart value holds a REFERENCE (an index into   *)
(* `heap`) to its items array.  push, splice and item.quantity = ... act   *)
(* on the array in the heap and are seen through every cart value that     *)
(* holds the same reference.                                               *)
(*                                                                         *)
(* The async methods of CartService run in two atomic pieces: everything   *)
(* up to and including the synchronous body of client.getCart (first       *)
(* piece), and everything after `await this.getCart(cartId)` up to and     *)
(* including the synchronous body of client.updateCart (second piece).     *)
(* Between the two pieces other callers' pieces may run and the clock may  *)
(* advance; the setInterval sweep is a timer callback and cannot run while *)
(* a continuation is queued.                                               *)
(***************************************************************************)
EXTENDS Integers, Sequences, FiniteSets, TLC

\* ------------------------------------------------------------------ bounds
MaxCarts == 2
MaxItems == 2
MaxClears == 1
MaxTime == 2
MaxTtl == 1
MaxQuantity == 2
MaxCallers == 2
MaxCalls == 4
MaxLines == 3
MaxShortCalls == 3

\* --------------------------------------------------------------- constants
\* StandardPricingStrategy.TAX_RATE = 0.09, as a percentage
TAX_RATE == 9
\* CartService.minQty default
minQty == 1
\* CartService.maxQty (configuration; default 99, scaled)
maxQty == MaxQuantity
\* CartService.maxQty default
DefaultMaxQty == 99

Callers == 1..MaxCallers
\* identifiers of version-4-UUID shape: uuidv4() hands them out in order, so
\* an id above nextCartId is well-formed and names no cart that ever existed
UuidShaped == 1..MaxCarts
\* 0 stands for a string that is not of version-4-UUID shape
CartIdInputs == 0..MaxCarts
ItemIdInputs == 1..MaxItems
ArrayRefs == 1..(MaxCarts + MaxClears)
\* <<whole, half>> stands for the number whole + half / 2
QuantityInputs == {<<q, 0>> : q \in 0..(maxQty + 1)} \cup {<<1, 1>>}
\* <<store ttlMinutes, engine cartTtlMinutes>>: the application wires both to
\* the same value, the expiration tests build the store with 0
TtlConfigs == {<<MaxTtl, MaxTtl>>, <<0, MaxTtl>>}
Metadatas == {"web"}

Products ==
  { [productId |-> "prod-001", name |-> "5G Plan", price |-> 7500, category |-> "plan"],
    [productId |-> "prod-001", name |-> "5G Plan", price |-> 8000, category |-> "plan"],
    [productId |-> "prod-002", name |-> "Phone", price |-> 3333, category |-> "device"],
    [productId |-> "", name |-> "Nameless", price |-> 100, category |-> "addon"] }

VARIABLES
  now,             \* the wall clock (new Date())
  storeTtl,        \* SalesforceCartClientMock.ttlMinutes
  engineTtl,       \* CartService.ttlMinutes
  cleanupInterval, \* SalesforceCartClientMock.cleanupInterval is set
  instance,        \* static SalesforceCartClientMock.instance (0 is null)
  objects,         \* the SalesforceCartClientMock objects built so far, by identity
  timers,          \* the setInterval timers that have not been cleared
  carts,           \* SalesforceCartClientMock.carts : Map<cartId, CartEntry>
  heap,            \* the items arrays, by reference
  nextCartId,      \* number of cart ids generated by uuidv4()
  nextItemId,      \* number of item ids generated by uuidv4()
  nextArr,         \* number of items arrays allocated
  clears,          \* number of clearCart calls started
  calls,           \* number of CartService calls started
  pc,              \* per caller: the suspended CartService method, or "idle"
  local,           \* per caller: the locals of the suspended method
  last,            \* what the last step did: the call it completed and its outcome
  expiredSeen,     \* history: cart ids for which some operation failed Expired
  deleted          \* history: cart ids whose entry a deleteCart call removed

vars == <<now, storeTtl, engineTtl, cleanupInterval, instance, objects, timers,
          carts, heap, nextCartId,
          nextItemId, nextArr, clears, calls, pc, local, last, expiredSeen,
          deleted>>

config == <<storeTtl, engineTtl, cleanupInterval, instance, objects, timers>>
counters == <<nextCartId, nextItemId, nextArr, clears>>

\* no store object other than the one CartService holds
NoObjects == instance = 0 /\ objects = << >> /\ timers = {}

\* a CartService method is called
Call == calls < MaxCalls /\ calls' = calls + 1
history == <<expiredSeen, deleted>>

NoCart == [cartId |-> 0]
NoLocal == [op |-> "none"]

\* ----------------------------------------------------------------- helpers
RECURSIVE SumTotalPrice(_)
\* cart.items.reduce((sum, item) => sum + item.totalPrice, 0)
SumTotalPrice(items) ==
  IF items = <<>> THEN 0
  ELSE Head(items).totalPrice + SumTotalPrice(Tail(items))

\* truncation instead of rounding
RoundDiv_Floor(n, d) == n \div d

\* Math.round(n / d) for n >= 0, d > 0: round half up
RoundDiv(n, d) == (2 * n + d) \div (2 * d)

\* Math.round(unitPrice * quantity * 100) / 100, in cents
LineTotal(unitPrice, quantity) == RoundDiv(unitPrice * quantity, 1)

\* items.findIndex(pred), given the value of pred on each element: the first
\* index where it holds, 0 when there is none (-1 in JS)
FindIndex(hits) ==
  IF \E i \in 1..Len(hits) : hits[i]
  THEN CHOOSE i \in 1..Len(hits) : hits[i] /\ \A j \in 1..(i - 1) : ~hits[j]
  ELSE 0

\* a removal that always takes the first element
Splice_First(items, idx) == Tail(items)

\* items.splice(idx, 1)
Splice(items, idx) ==
  [i \in 1..(Len(items) - 1) |-> IF i < idx THEN items[i] ELSE items[i + 1]]

\* a cart value with its items array read out of the heap
Deep(cart, h) == [cart EXCEPT !.items = h[cart.items]]

\* ------------------------------------------------ StandardPricingStrategy
\* a recomputation that only stamps updatedAt
calculatePricing_Stale(cart, h, t) == [cart EXCEPT !.updatedAt = t]

\* calculatePricing(cart); h is the heap the cart's items are read from and t
\* the value of new Date()
\* a recomputation that also pushes expiresAt forward
calculatePricing_Extend(cart, h, t) ==
  LET subtotal == SumTotalPrice(h[cart.items])
      tax == RoundDiv(subtotal * TAX_RATE, 100)
      total == RoundDiv(subtotal + tax, 1)
  IN [cart EXCEPT !.subtotal = RoundDiv(subtotal, 1),
                  !.tax = tax,
                  !.total = total,
                  !.updatedAt = t,
                  !.expiresAt = t + engineTtl]

\* a recomputation that leaves updatedAt alone
calculatePricing_KeepUpdatedAt(cart, h, t) ==
  LET subtotal == SumTotalPrice(h[cart.items])
      tax == RoundDiv(subtotal * TAX_RATE, 100)
      total == RoundDiv(subtotal + tax, 1)
  IN [cart EXCEPT !.subtotal = RoundDiv(subtotal, 1),
                  !.tax = tax,
                  !.total = total]

calculatePricing(cart, h, t) ==
  LET subtotal == SumTotalPrice(h[cart.items])
      tax == RoundDiv(subtotal * TAX_RATE, 100)
      total == RoundDiv(subtotal + tax, 1)
  IN [cart EXCEPT !.subtotal = RoundDiv(subtotal, 1),
                  !.tax = tax,
                  !.total = total,
                  !.updatedAt = t]

\* ------------------------------------------------ Number (IEEE 754 double)
\* The amounts of calculatePricing are JavaScript Numbers. A natural number of
\* any size is a sequence of limbs, least significant first; a non-negative
\* double is <<m, e>>, standing for m * 2^e with m below 2^53 (2^53 itself only
\* as the outcome of a rounding that carried).
Limb == 2 ^ 12

RECURSIVE BigOf(_)
BigOf(n) == IF n = 0 THEN << >> ELSE <<n % Limb>> \o BigOf(n \div Limb)

RECURSIVE IntOf(_)
IntOf(b) == IF b = << >> THEN 0 ELSE b[1] + Limb * IntOf(Tail(b))

RECURSIVE Trim(_)
Trim(b) ==
  IF b # << >> /\ b[Len(b)] = 0 THEN Trim(SubSeq(b, 1, Len(b) - 1)) ELSE b

Rest(b) == IF b = << >> THEN << >> ELSE Tail(b)
Low(b) == IF b = << >> THEN 0 ELSE b[1]

\* a + b + c
RECURSIVE BigAdd(_, _, _)
BigAdd(a, b, c) ==
  IF a = << >> /\ b = << >>
  THEN BigOf(c)
  ELSE LET x == Low(a) + Low(b) + c
       IN <<x % Limb>> \o BigAdd(Rest(a), Rest(b), x \div Limb)

\* a * k + c, for k up to a limb
RECURSIVE BigScale(_, _, _)
BigScale(a, k, c) ==
  IF a = << >>
  THEN BigOf(c)
  ELSE LET x == a[1] * k + c
       IN <<x % Limb>> \o BigScale(Tail(a), k, x \div Limb)

RECURSIVE BigMul(_, _)
BigMul(a, b) ==
  IF b = << >>
  THEN << >>
  ELSE BigAdd(BigScale(a, b[1], 0), <<0>> \o BigMul(a, Tail(b)), 0)

\* quotient and remainder of a by d, for d up to a limb
RECURSIVE BigDivRem(_, _)
BigDivRem(a, d) ==
  IF a = << >>
  THEN [q |-> << >>, r |-> 0]
  ELSE LET hi == BigDivRem(Tail(a), d)
           x == hi.r * Limb + a[1]
       IN [q |-> <<x \div d>> \o hi.q, r |-> x % d]

\* a * 2^k
RECURSIVE BigShl(_, _)
BigShl(a, k) ==
  IF k >= 12 THEN <<0>> \o BigShl(a, k - 12) ELSE BigScale(a, 2 ^ k, 0)

\* m needs more than 53 bits: 2^53 is the limb 2^5 in the fifth place
Wide(m) ==
  LET t == Trim(m) IN Len(t) > 5 \/ (Len(t) = 5 /\ t[5] >= 2 ^ 5)

\* the double nearest to m * 2^e (plus less than one unit of m when guard or
\* sticky is set), ties to even: the rounding every operation ends with.
\* Bits are dropped a limb at a time while more than six limbs are left.
RECURSIVE Nearest(_, _, _, _)
Nearest(m, e, guard, sticky) ==
  LET t == Trim(m)
  IN IF Len(t) > 6
     THEN Nearest(Tail(t), e + 12, t[1] \div 2 ^ 11,
                  sticky \/ guard = 1 \/ t[1] % 2 ^ 11 # 0)
     ELSE IF Wide(t)
     THEN LET h == BigDivRem(t, 2)
          IN Nearest(h.q, e + 1, h.r, sticky \/ guard = 1)
     ELSE IF guard = 1 /\ (sticky \/ Low(t) % 2 = 1)
     THEN <<BigAdd(t, << >>, 1), e>>
     ELSE <<t, e>>

\* the double of a natural number below 2^31
DoubleOf(n) == <<BigOf(n), 0>>

\* x + y
DoubleAdd(x, y) ==
  LET e == IF x[2] < y[2] THEN x[2] ELSE y[2]
  IN Nearest(BigAdd(BigShl(x[1], x[2] - e), BigShl(y[1], y[2] - e), 0),
             e, 0, FALSE)

\* x * y
DoubleMul(x, y) == Nearest(BigMul(x[1], y[1]), x[2] + y[2], 0, FALSE)

\* n / d for natural numbers n and d, d up to a limb; with d = 100 also the
\* value of a decimal literal of n hundredths
DoubleDiv(n, d) ==
  IF n = 0
  THEN DoubleOf(0)
  ELSE LET h == BigDivRem(BigShl(BigOf(n), 62), d)
       IN Nearest(h.q, 0 - 62, 0, h.r # 0)

\* m / 2^k rounded to the nearest integer, halves up, guard being the bit
\* dropped last
RECURSIVE RoundShift(_, _, _)
RoundShift(m, k, guard) ==
  IF k = 0
  THEN IntOf(m) + guard
  ELSE IF k >= 12
  THEN RoundShift(Rest(m), k - 12, Low(m) \div 2 ^ 11)
  ELSE LET h == BigDivRem(m, 2 ^ k) IN IntOf(h.q) + h.r \div 2 ^ (k - 1)

\* Math.round(x)
MathRound(x) ==
  IF x[2] >= 0 THEN IntOf(BigShl(x[1], x[2])) ELSE RoundShift(x[1], 0 - x[2], 0)

\* items.reduce((sum, item) => sum + item.totalPrice, 0) over the first n items
RECURSIVE SumNumber(_, _)
SumNumber(items, n) ==
  IF n = 0
  THEN DoubleOf(0)
  ELSE DoubleAdd(SumNumber(items, n - 1), DoubleDiv(items[n].totalPrice, 100))

\* calculatePricing(cart) in the arithmetic of Number; an amount at rest is a
\* number of hundredths c, the double c / 100
calculatePricingNumber(cart, h, t) ==
  LET items == h[cart.items]
      subtotal == SumNumber(items, Len(items))
      tax == MathRound(DoubleMul(DoubleMul(subtotal, DoubleDiv(TAX_RATE, 100)),
                                 DoubleOf(100)))
      total == MathRound(DoubleMul(DoubleAdd(subtotal, DoubleDiv(tax, 100)),
                                   DoubleOf(100)))
  IN [cart EXCEPT !.subtotal = MathRound(DoubleMul(subtotal, DoubleOf(100))),
                  !.tax = tax,
                  !.total = total,
                  !.updatedAt = t]

\* ----------------------------------------------- SalesforceCartClientMock
MapSet(m, k, v) == [x \in DOMAIN m \cup {k} |-> IF x = k THEN v ELSE m[x]]
MapDelete(m, k) == [x \in DOMAIN m \ {k} |-> m[x]]

\* an entry that expires at the boundary instant already
isExpired_AtBoundary(entry, t, ttl) == t >= entry.createdAt + ttl

\* isExpired(entry), t being the value of new Date()
isExpired(entry, t, ttl) == t > entry.createdAt + ttl

\* createCart(cart): the map after the call (the returned value is a copy of cart)
\* a createCart that anchors the entry at the insertion time
clientCreateCart_InsertionTime(m, cart) ==
  MapSet(m, cart.cartId, [cart |-> cart, createdAt |-> now])

clientCreateCart(m, cart) ==
  MapSet(m, cart.cartId, [cart |-> cart, createdAt |-> cart.createdAt])

\* a getCart that reports the expiration and keeps the entry
clientGetCart_NoEvict(m, cartId, t, ttl) ==
  IF cartId \notin DOMAIN m
  THEN [status |-> "null", carts |-> m, cart |-> NoCart]
  ELSE IF isExpired(m[cartId], t, ttl)
  THEN [status |-> "Expired", carts |-> m, cart |-> NoCart]
  ELSE [status |-> "ok", carts |-> m, cart |-> m[cartId].cart]

\* getCart(cartId): status "null" | "Expired" | "ok", the map after the call,
\* and the returned copy
\* a getCart that, finding its entry expired, evicts every expired entry
clientGetCart_EvictAll(m, cartId, t, ttl) ==
  IF cartId \notin DOMAIN m
  THEN [status |-> "null", carts |-> m, cart |-> NoCart]
  ELSE IF isExpired(m[cartId], t, ttl)
  THEN [status |-> "Expired",
        carts |-> [x \in {c \in DOMAIN m : ~isExpired(m[c], t, ttl)} |-> m[x]],
        cart |-> NoCart]
  ELSE [status |-> "ok", carts |-> m, cart |-> m[cartId].cart]

clientGetCart(m, cartId, t, ttl) ==
  IF cartId \notin DOMAIN m
  THEN [status |-> "null", carts |-> m, cart |-> NoCart]
  ELSE IF isExpired(m[cartId], t, ttl)
  THEN [status |-> "Expired", carts |-> MapDelete(m, cartId), cart |-> NoCart]
  ELSE [status |-> "ok", carts |-> m, cart |-> m[cartId].cart]

\* an updateCart that reports the expiration and keeps the entry
clientUpdateCart_NoEvict(m, cart, t, ttl) ==
  IF cart.cartId \notin DOMAIN m
  THEN [status |-> "NotFound", carts |-> m]
  ELSE IF isExpired(m[cart.cartId], t, ttl)
  THEN [status |-> "Expired", carts |-> m]
  ELSE [status |-> "ok",
        carts |-> [m EXCEPT ![cart.cartId] = [cart |-> cart, createdAt |-> @.createdAt]]]

\* an updateCart that restarts the entry's clock (sliding expiration)
clientUpdateCart_Sliding(m, cart, t, ttl) ==
  IF cart.cartId \notin DOMAIN m
  THEN [status |-> "NotFound", carts |-> m]
  ELSE IF isExpired(m[cart.cartId], t, ttl)
  THEN [status |-> "Expired", carts |-> MapDelete(m, cart.cartId)]
  ELSE [status |-> "ok",
        carts |-> [m EXCEPT ![cart.cartId] = [cart |-> cart, createdAt |-> t]]]

\* an updateCart that sets the entry whether or not the id is present
clientUpdateCart_Upsert(m, cart, t, ttl) ==
  IF cart.cartId \in DOMAIN m /\ isExpired(m[cart.cartId], t, ttl)
  THEN [status |-> "Expired", carts |-> MapDelete(m, cart.cartId)]
  ELSE [status |-> "ok",
        carts |-> MapSet(m, cart.cartId,
                         [cart |-> cart,
                          createdAt |-> IF cart.cartId \in DOMAIN m
                                        THEN m[cart.cartId].createdAt
                                        ELSE cart.createdAt])]

\* updateCart(cart): status "NotFound" | "Expired" | "ok", the map after the call
clientUpdateCart(m, cart, t, ttl) ==
  IF cart.cartId \notin DOMAIN m
  THEN [status |-> "NotFound", carts |-> m]
  ELSE IF isExpired(m[cart.cartId], t, ttl)
  THEN [status |-> "Expired", carts |-> MapDelete(m, cart.cartId)]
  ELSE [status |-> "ok",
        carts |-> [m EXCEPT ![cart.cartId] = [cart |-> cart, createdAt |-> @.createdAt]]]

\* a deleteCart that leaves the map alone
clientDeleteCart_Keep(m, cartId) == m

\* deleteCart(cartId): the map after this.carts.delete(cartId)

clientDeleteCart(m, cartId) == MapDelete(m, cartId)

\* cleanupExpiredCarts(): the map without its expired entries
\* a sweep that deletes while it iterates and stops after the first deletion
cleanupExpiredCarts_FirstOnly(m, t, ttl) ==
  LET expired == {c \in DOMAIN m : isExpired(m[c], t, ttl)}
  IN [x \in {c \in DOMAIN m : c \notin expired \/ \E d \in expired : d < c} |-> m[x]]

\* a sweep that collects the expired ids and deletes none
cleanupExpiredCarts_CollectOnly(m, t, ttl) == m

cleanupExpiredCarts(m, t, ttl) ==
  [x \in {c \in DOMAIN m : ~isExpired(m[c], t, ttl)} |-> m[x]]

getCartCount == Cardinality(DOMAIN carts)

\* ------------------------------------------------------------ CartService
\* a test that lets every string through
validateCartId_Any(cartId) == TRUE

\* uuidRegex.test(cartId)
validateCartId(cartId) == cartId \in UuidShaped

\* the range check without its upper bound
validateQuantity_NoMax(quantity) ==
  /\ quantity[2] = 0
  /\ ~(quantity[1] < minQty)

\* a range check that takes any number
validateQuantityWith_AnyNumber(quantity, lo, hi) ==
  ~(quantity[1] < lo \/ quantity[1] > hi)

\* validateQuantity(quantity) of a service built with minQty = lo, maxQty = hi:
\* Number.isInteger(quantity), then the range check; TRUE when nothing is thrown
validateQuantityWith(quantity, lo, hi) ==
  /\ quantity[2] = 0
  /\ ~(quantity[1] < lo \/ quantity[1] > hi)

\* validateQuantity(quantity) of the service of the model
validateQuantity(quantity) == validateQuantityWith(quantity, minQty, maxQty)

\* a validation that takes "positive" at its word and refuses price 0
validateProduct_Positive(product) ==
  /\ product.productId # ""
  /\ product.name # ""
  /\ product.price > 0
  /\ product.category \in {"plan", "device", "addon", "accessory"}

\* validateProduct(product) on a value of type Product: TRUE when nothing is
\* thrown (`!product.productId` and `!product.name` are the empty string)

validateProduct(product) ==
  /\ product.productId # ""
  /\ product.name # ""
  /\ ~(product.price < 0)
  /\ product.category \in {"plan", "device", "addon", "accessory"}

\* the merge without its limit
ExceedsMax_Never(newQty) == FALSE

\* `if (newQty > this.maxQty) throw new ValidationError(...)` of the merge
ExceedsMax(newQty) == newQty > maxQty

\* an assignment that adds the requested quantity to the item's
SetQuantity_Add(item, newQty) ==
  [item EXCEPT !.quantity = item.quantity + newQty,
               !.totalPrice = LineTotal(item.unitPrice, item.quantity + newQty)]

\* an assignment of the quantity that leaves totalPrice as it was
SetQuantity_KeepTotal(item, newQty) == [item EXCEPT !.quantity = newQty]

\* item.quantity = newQty; item.totalPrice = Math.round(item.unitPrice * newQty * 100) / 100
SetQuantity(item, newQty) ==
  [item EXCEPT !.quantity = newQty, !.totalPrice = LineTotal(item.unitPrice, newQty)]

\* the item pushed for a product that is not in the cart
NewItem(itemId, product, quantity, t) ==
  [itemId |-> itemId, product |-> product, quantity |-> quantity,
   unitPrice |-> product.price,
   totalPrice |-> LineTotal(product.price, quantity),
   addedAt |-> t]

\* a lookup that never finds the product
FindProduct_None(items, productId) == 0

\* cart.items.findIndex(item => item.product.productId === productId)
FindProduct(items, productId) ==
  FindIndex([i \in 1..Len(items) |-> items[i].product.productId = productId])

\* cart.items.findIndex(item => item.itemId === itemId)
FindItem(items, itemId) ==
  FindIndex([i \in 1..Len(items) |-> items[i].itemId = itemId])

\* What a completed call gave its caller: status "ok" with the returned cart
\* (its items read out at that moment), or the kind of the error thrown and
\* what the error names.
\* DomainError.statusCode of the four error classes
statusCode(kind) ==
  CASE kind = "Expired" -> 410
    [] kind = "NotFound" -> 404
    [] kind = "Validation" -> 400
    [] kind = "Conflict" -> 409

Outcome(op, cartId, status, what, cart) ==
  [op |-> op, cartId |-> cartId, status |-> status, what |-> what, cart |-> cart]

\* a step that completes no call
NoOutcome == Outcome("none", 0, "none", "", NoCart)

NoteExpired(cartId, status) ==
  IF status = "Expired" THEN expiredSeen \cup {cartId} ELSE expiredSeen

Pending(op) == Cardinality({k \in Callers : pc[k] = op})

\* a new call is suspended in the first free slot
FreeSlot(k) == pc[k] = "idle" /\ \A j \in 1..(k - 1) : pc[j] # "idle"

Init ==
  /\ now = 0
  /\ \E ttl \in TtlConfigs : storeTtl = ttl[1] /\ engineTtl = ttl[2]
  /\ cleanupInterval = TRUE
  /\ NoObjects
  /\ carts = << >>
  /\ heap = [r \in ArrayRefs |-> << >>]
  /\ nextCartId = 0
  /\ nextItemId = 0
  /\ nextArr = 0
  /\ clears = 0
  /\ calls = 0
  /\ pc = [k \in Callers |-> "idle"]
  /\ local = [k \in Callers |-> NoLocal]
  /\ last = NoOutcome
  /\ expiredSeen = {}
  /\ deleted = {}

\* the clock advances
Tick ==
  /\ now < MaxTime
  /\ now' = now + 1
  /\ last' = NoOutcome
  /\ UNCHANGED <<config, carts, heap, counters, calls, pc, local, history>>

\* the setInterval callback: cleanupExpiredCarts(); a timer callback runs only
\* when no continuation is queued
Sweep ==
  /\ cleanupInterval
  /\ \A k \in Callers : pc[k] = "idle"
  /\ carts' = cleanupExpiredCarts(carts, now, storeTtl)
  /\ last' = Outcome("cleanupExpiredCarts", 0, "none", "", NoCart)
  /\ UNCHANGED <<now, config, heap, counters, calls, pc, local, history>>

\* a createCart that forgets the metadata it was given
CreateCart_DropMetadata(metadata) ==
  /\ nextCartId < MaxCarts
  /\ LET cart == [cartId |-> nextCartId + 1,
                  items |-> nextArr + 1,
                  subtotal |-> 0, tax |-> 0, total |-> 0,
                  createdAt |-> now, updatedAt |-> now,
                  expiresAt |-> now + engineTtl,
                  metadata |-> "none"]
     IN /\ carts' = clientCreateCart(carts, cart)
        /\ heap' = [heap EXCEPT ![nextArr + 1] = << >>]
        /\ last' = Outcome("createCart", cart.cartId, "ok", "", Deep(cart, heap'))
  /\ nextCartId' = nextCartId + 1
  /\ nextArr' = nextArr + 1
  /\ UNCHANGED <<now, config, nextItemId, clears, pc, local, history>>

\* CartService.createCart(metadata)
CreateCart(metadata) ==
  /\ nextCartId < MaxCarts
  /\ LET cart == [cartId |-> nextCartId + 1,
                  items |-> nextArr + 1,
                  subtotal |-> 0, tax |-> 0, total |-> 0,
                  createdAt |-> now, updatedAt |-> now,
                  expiresAt |-> now + engineTtl,
                  metadata |-> metadata]
     IN /\ carts' = clientCreateCart(carts, cart)
        /\ heap' = [heap EXCEPT ![nextArr + 1] = << >>]
        /\ last' = Outcome("createCart", cart.cartId, "ok", "", Deep(cart, heap'))
  /\ nextCartId' = nextCartId + 1
  /\ nextArr' = nextArr + 1
  /\ UNCHANGED <<now, config, nextItemId, clears, pc, local, history>>

\* CartService.getCart(cartId), as called from outside
GetCart(cartId) ==
  /\ IF ~validateCartId(cartId)
     THEN /\ last' = Outcome("getCart", cartId, "Validation", "cartId", NoCart)
          /\ UNCHANGED <<carts, expiredSeen>>
     ELSE LET r == clientGetCart(carts, cartId, now, storeTtl)
          IN /\ carts' = r.carts
             /\ last' = IF r.status = "ok"
                        THEN Outcome("getCart", cartId, "ok", "", Deep(r.cart, heap))
                        ELSE IF r.status = "null"
                        THEN Outcome("getCart", cartId, "NotFound", "Cart", NoCart)
                        ELSE Outcome("getCart", cartId, "Expired", "Cart", NoCart)
             /\ expiredSeen' = NoteExpired(cartId, r.status)
  /\ UNCHANGED <<now, config, heap, counters, pc, local, deleted>>

\* CartService.deleteCart(cartId)
DeleteCart(cartId) ==
  /\ IF ~validateCartId(cartId)
     THEN /\ last' = Outcome("deleteCart", cartId, "Validation", "cartId", NoCart)
          /\ UNCHANGED <<carts, deleted>>
     ELSE /\ carts' = clientDeleteCart(carts, cartId)
          /\ last' = Outcome("deleteCart", cartId, "ok", "", NoCart)
          /\ deleted' = deleted \cup ({cartId} \cap DOMAIN carts)
  /\ UNCHANGED <<now, config, heap, counters, pc, local, expiredSeen>>

\* a first piece that reads the cart before it looks at the validations
Begin_ReadFirst(k, op, cartId, invalid, args) ==
  LET r == clientGetCart(carts, cartId, now, storeTtl)
  IN /\ carts' = r.carts
     /\ IF invalid # ""
        THEN /\ last' = Outcome(op, cartId, "Validation", invalid, NoCart)
             /\ UNCHANGED <<pc, local, expiredSeen>>
        ELSE /\ expiredSeen' = NoteExpired(cartId, r.status)
             /\ IF r.status = "ok"
                THEN /\ pc' = [pc EXCEPT ![k] = op]
                     /\ local' = [local EXCEPT ![k] = [cart |-> r.cart, args |-> args]]
                     /\ last' = NoOutcome
                ELSE /\ last' = IF r.status = "null"
                                THEN Outcome(op, cartId, "NotFound", "Cart", NoCart)
                                ELSE Outcome(op, cartId, "Expired", "Cart", NoCart)
                     /\ UNCHANGED <<pc, local>>
     /\ UNCHANGED <<now, config, heap, nextCartId, nextItemId, nextArr, deleted>>

\* The first piece of addItem / removeItem / updateItemQuantity / clearCart:
\* the validations (invalid names the first one that fails, "" when none
\* does), then `await this.getCart(cartId)`.  On success the method is
\* suspended in slot k with the cart it read.
Begin(k, op, cartId, invalid, args) ==
  /\ IF invalid # ""
     THEN /\ last' = Outcome(op, cartId, "Validation", invalid, NoCart)
          /\ UNCHANGED <<carts, pc, local, expiredSeen>>
     ELSE LET r == clientGetCart(carts, cartId, now, storeTtl)
          IN /\ carts' = r.carts
             /\ expiredSeen' = NoteExpired(cartId, r.status)
             /\ IF r.status = "ok"
                THEN /\ pc' = [pc EXCEPT ![k] = op]
                     /\ local' = [local EXCEPT ![k] = [cart |-> r.cart, args |-> args]]
                     /\ last' = NoOutcome
                ELSE /\ last' = IF r.status = "null"
                                THEN Outcome(op, cartId, "NotFound", "Cart", NoCart)
                                ELSE Outcome(op, cartId, "Expired", "Cart", NoCart)
                     /\ UNCHANGED <<pc, local>>
  /\ UNCHANGED <<now, config, heap, nextCartId, nextItemId, nextArr, deleted>>

\* The end of the second piece:
\* `return this.client.updateCart(this.pricing.calculatePricing(cart))`,
\* cart being the method's local cart and h the heap after its in-place changes
WriteBack(k, op, cart, h) ==
  LET priced == calculatePricing(cart, h, now)
      u == clientUpdateCart(carts, priced, now, storeTtl)
  IN /\ heap' = h
     /\ carts' = u.carts
     /\ last' = IF u.status = "ok"
                THEN Outcome(op, cart.cartId, "ok", "", Deep(priced, h))
                ELSE Outcome(op, cart.cartId, u.status, "Cart", NoCart)
     /\ expiredSeen' = NoteExpired(cart.cartId, u.status)
     /\ pc' = [pc EXCEPT ![k] = "idle"]
     /\ local' = [local EXCEPT ![k] = NoLocal]

\* the second piece throws before it changes anything
Throw(k, op, cartId, status, what) ==
  /\ last' = Outcome(op, cartId, status, what, NoCart)
  /\ pc' = [pc EXCEPT ![k] = "idle"]
  /\ local' = [local EXCEPT ![k] = NoLocal]
  /\ UNCHANGED <<carts, heap, expiredSeen>>

\* CartService.addItem(cartId, {product, quantity}) up to its await
AddItemStart(k, cartId, product, quantity) ==
  /\ Begin(k, "addItem", cartId,
           IF ~validateCartId(cartId) THEN "cartId"
           ELSE IF ~validateQuantity(quantity) THEN "quantity"
           ELSE IF ~validateProduct(product) THEN "product"
           ELSE "",
           [product |-> product, quantity |-> quantity[1]])
  /\ UNCHANGED clears

\* an addItem whose merge takes the price and product record of the request
AddItemFinish_Reprice(k) ==
  /\ pc[k] = "addItem"
  /\ LET cart == local[k].cart
         request == local[k].args
         items == heap[cart.items]
         existingIdx == FindProduct(items, request.product.productId)
     IN IF existingIdx > 0
        THEN LET item == items[existingIdx]
                 newQty == item.quantity + request.quantity
             IN /\ IF ExceedsMax(newQty)
                   THEN Throw(k, "addItem", cart.cartId, "Validation", "merge")
                   ELSE WriteBack(k, "addItem", cart,
                          [heap EXCEPT ![cart.items][existingIdx] =
                             NewItem(item.itemId, request.product, newQty, item.addedAt)])
                /\ UNCHANGED nextItemId
        ELSE /\ WriteBack(k, "addItem", cart,
                  [heap EXCEPT ![cart.items] =
                     Append(items, NewItem(nextItemId + 1, request.product,
                                           request.quantity, now))])
             /\ nextItemId' = nextItemId + 1
  /\ UNCHANGED <<now, config, nextCartId, nextArr, clears, calls, deleted>>

\* an addItem whose refused merge is reported as a conflict
AddItemFinish_Conflict(k) ==
  /\ pc[k] = "addItem"
  /\ LET cart == local[k].cart
         request == local[k].args
         items == heap[cart.items]
         existingIdx == FindProduct(items, request.product.productId)
     IN IF existingIdx > 0
        THEN LET item == items[existingIdx]
                 newQty == item.quantity + request.quantity
             IN /\ IF ExceedsMax(newQty)
                   THEN Throw(k, "addItem", cart.cartId, "Conflict", "merge")
                   ELSE WriteBack(k, "addItem", cart,
                          [heap EXCEPT ![cart.items][existingIdx] = SetQuantity(item, newQty)])
                /\ UNCHANGED nextItemId
        ELSE /\ WriteBack(k, "addItem", cart,
                  [heap EXCEPT ![cart.items] =
                     Append(items, NewItem(nextItemId + 1, request.product,
                                           request.quantity, now))])
             /\ nextItemId' = nextItemId + 1
  /\ UNCHANGED <<now, config, nextCartId, nextArr, clears, calls, deleted>>

\* CartService.addItem after its await
AddItemFinish(k) ==
  /\ pc[k] = "addItem"
  /\ LET cart == local[k].cart
         request == local[k].args
         items == heap[cart.items]
         existingIdx == FindProduct(items, request.product.productId)
     IN IF existingIdx > 0
        THEN LET item == items[existingIdx]
                 newQty == item.quantity + request.quantity
             IN /\ IF ExceedsMax(newQty)
                   THEN Throw(k, "addItem", cart.cartId, "Validation", "merge")
                   ELSE WriteBack(k, "addItem", cart,
                          [heap EXCEPT ![cart.items][existingIdx] = SetQuantity(item, newQty)])
                /\ UNCHANGED nextItemId
        ELSE /\ WriteBack(k, "addItem", cart,
                  [heap EXCEPT ![cart.items] =
                     Append(items, NewItem(nextItemId + 1, request.product,
                                           request.quantity, now))])
             /\ nextItemId' = nextItemId + 1
  /\ UNCHANGED <<now, config, nextCartId, nextArr, clears, calls, deleted>>

\* CartService.removeItem(cartId, itemId) up to its await
RemoveItemStart(k, cartId, itemId) ==
  /\ Begin(k, "removeItem", cartId,
           IF ~validateCartId(cartId) THEN "cartId" ELSE "",
           [itemId |-> itemId])
  /\ UNCHANGED clears

\* CartService.removeItem after its await
RemoveItemFinish(k) ==
  /\ pc[k] = "removeItem"
  /\ LET cart == local[k].cart
         items == heap[cart.items]
         idx == FindItem(items, local[k].args.itemId)
     IN IF idx = 0
        THEN Throw(k, "removeItem", cart.cartId, "NotFound", "Item")
        ELSE WriteBack(k, "removeItem", cart,
                       [heap EXCEPT ![cart.items] = Splice(items, idx)])
  /\ UNCHANGED <<now, config, counters, calls, deleted>>

\* CartService.updateItemQuantity(cartId, itemId, quantity) up to its await
UpdateItemQuantityStart(k, cartId, itemId, quantity) ==
  /\ Begin(k, "updateItemQuantity", cartId,
           IF ~validateCartId(cartId) THEN "cartId"
           ELSE IF ~validateQuantity(quantity) THEN "quantity"
           ELSE "",
           [itemId |-> itemId, quantity |-> quantity[1]])
  /\ UNCHANGED clears

\* CartService.updateItemQuantity after its await
UpdateItemQuantityFinish(k) ==
  /\ pc[k] = "updateItemQuantity"
  /\ LET cart == local[k].cart
         items == heap[cart.items]
         idx == FindItem(items, local[k].args.itemId)
     IN IF idx = 0
        THEN Throw(k, "updateItemQuantity", cart.cartId, "NotFound", "Item")
        ELSE WriteBack(k, "updateItemQuantity", cart,
                       [heap EXCEPT ![cart.items][idx] =
                          SetQuantity(items[idx], local[k].args.quantity)])
  /\ UNCHANGED <<now, config, counters, calls, deleted>>

\* CartService.clearCart(cartId) up to its await
ClearCartStart(k, cartId) ==
  /\ Begin(k, "clearCart", cartId,
           IF ~validateCartId(cartId) THEN "cartId" ELSE "",
           [none |-> 0])
  /\ clears' = clears + 1

\* a clearCart that ends the session instead of emptying it
ClearCartFinish_Delete(k) ==
  /\ pc[k] = "clearCart"
  /\ carts' = clientDeleteCart(carts, local[k].cart.cartId)
  /\ last' = Outcome("clearCart", local[k].cart.cartId, "ok", "",
                     [local[k].cart EXCEPT !.items = << >>, !.subtotal = 0,
                                           !.tax = 0, !.total = 0, !.updatedAt = now])
  /\ pc' = [pc EXCEPT ![k] = "idle"]
  /\ local' = [local EXCEPT ![k] = NoLocal]
  /\ UNCHANGED <<now, config, heap, counters, calls, history>>

\* CartService.clearCart after its await; cart.items = [] gives the local cart
\* a new, empty array
ClearCartFinish(k) ==
  /\ pc[k] = "clearCart"
  /\ WriteBack(k, "clearCart", [local[k].cart EXCEPT !.items = nextArr + 1],
               [heap EXCEPT ![nextArr + 1] = << >>])
  /\ nextArr' = nextArr + 1
  /\ UNCHANGED <<now, config, nextCartId, nextItemId, clears, calls, deleted>>

\* a CartService method is called; k is the slot it is suspended in if it awaits
Enter(k) == FreeSlot(k) /\ Call

Next ==
  \/ Tick
  \/ Sweep
  \/ \E k \in Callers : Enter(k) /\ \E metadata \in Metadatas : CreateCart(metadata)
  \/ \E k \in Callers : Enter(k) /\ \E cartId \in CartIdInputs : GetCart(cartId)
  \/ \E k \in Callers : Enter(k) /\ \E cartId \in CartIdInputs : DeleteCart(cartId)
  \/ \E k \in Callers :
       /\ Enter(k)
       /\ nextItemId + Pending("addItem") < MaxItems
       /\ \E cartId \in CartIdInputs, product \in Products, quantity \in QuantityInputs :
            AddItemStart(k, cartId, product, quantity)
  \/ \E k \in Callers : AddItemFinish(k)
  \/ \E k \in Callers :
       /\ Enter(k)
       /\ \E cartId \in CartIdInputs, itemId \in ItemIdInputs :
            RemoveItemStart(k, cartId, itemId)
  \/ \E k \in Callers : RemoveItemFinish(k)
  \/ \E k \in Callers :
       /\ Enter(k)
       /\ \E cartId \in CartIdInputs, itemId \in ItemIdInputs, quantity \in QuantityInputs :
            UpdateItemQuantityStart(k, cartId, itemId, quantity)
  \/ \E k \in Callers : UpdateItemQuantityFinish(k)
  \/ \E k \in Callers :
       /\ Enter(k)
       /\ clears < MaxClears
       /\ \E cartId \in CartIdInputs : ClearCartStart(k, cartId)
  \/ \E k \in Callers : ClearCartFinish(k)

Spec == Init /\ [][Next]_vars

\* the same service and store, observed over its first MaxShortCalls calls
NextShort == Next /\ calls' <= MaxShortCalls

SpecShort == Init /\ [][NextShort]_vars

\* a suspended method's continuation runs
Resume ==
  \E k \in Callers :
    \/ AddItemFinish(k)
    \/ RemoveItemFinish(k)
    \/ UpdateItemQuantityFinish(k)
    \/ ClearCartFinish(k)

\* The event loop: a queued continuation is run, the interval timer fires as
\* long as it is set, and the clock advances (up to MaxTime).
Fairness == WF_vars(Resume) /\ WF_vars(Sweep) /\ WF_vars(Tick)

SpecFair == Init /\ [][NextShort]_vars /\ Fairness
\* createCart(metadata?): a metadata object of either channel, or undefined
MetadataInputs == Metadatas \cup {"retail", "none"}

\* the first MaxShortCalls calls, createCart taking any of MetadataInputs
NextCreate ==
  /\ \/ Next
     \/ \E k \in Callers : Enter(k) /\ \E metadata \in MetadataInputs : CreateCart(metadata)
  /\ calls' <= MaxShortCalls

SpecCreate == Init /\ [][NextCreate]_vars

\* ------------------------------------- StandardPricingStrategy on its own
\* calculatePricing applied to a cart whose items carry any of these totalPrices
PriceInputs == {0, 50, 7500, 9999, 99999}

PricedItem(itemId, totalPrice) ==
  [itemId |-> itemId,
   product |-> [productId |-> "prod-001", name |-> "5G Plan", price |-> totalPrice,
                category |-> "plan"],
   quantity |-> 1, unitPrice |-> totalPrice, totalPrice |-> totalPrice, addedAt |-> 0]

PricedLists ==
  UNION {{[i \in 1..n |-> PricedItem(i, f[i])] : f \in [1..n -> PriceInputs]} : n \in 0..MaxLines}

\* a cart with stale monetary fields is about to be priced
InitPricing ==
  /\ now = 1
  /\ storeTtl = MaxTtl
  /\ engineTtl = MaxTtl
  /\ cleanupInterval = FALSE
  /\ NoObjects
  /\ carts = << >>
  /\ \E items \in PricedLists : heap = [r \in ArrayRefs |-> IF r = 1 THEN items ELSE << >>]
  /\ nextCartId = 1
  /\ nextItemId = 0
  /\ nextArr = 1
  /\ clears = 0
  /\ calls = 0
  /\ pc = [k \in Callers |-> IF k = 1 THEN "calculatePricing" ELSE "idle"]
  /\ local = [k \in Callers |->
                IF k = 1
                THEN [cart |-> [cartId |-> 1, items |-> 1,
                                subtotal |-> 1, tax |-> 1, total |-> 1,
                                createdAt |-> 0, updatedAt |-> 0,
                                expiresAt |-> engineTtl, metadata |-> "web"],
                      args |-> [none |-> 0]]
                ELSE NoLocal]
  /\ last = NoOutcome
  /\ expiredSeen = {}
  /\ deleted = {}

\* this.pricing.calculatePricing(cart)
Price ==
  /\ pc[1] = "calculatePricing"
  /\ last' = Outcome("calculatePricing", local[1].cart.cartId, "ok", "",
                     Deep(calculatePricing(local[1].cart, heap, now), heap))
  /\ pc' = [pc EXCEPT ![1] = "idle"]
  /\ local' = [local EXCEPT ![1] = NoLocal]
  /\ UNCHANGED <<now, config, carts, heap, counters, calls, history>>

NextPricing == Price

SpecPricing == InitPricing /\ [][NextPricing]_vars

\* ----------------------------------- CartService.validateQuantity on its own
\* <<minQty, maxQty>> of the service: the defaults and those of the model
QuantityBounds == {<<minQty, DefaultMaxQty>>, <<minQty, maxQty>>}

\* the numbers whole and whole + 1/2 from below minQty to above the default maxQty
NumberInputs == {<<w, h>> : w \in (minQty - 2)..(DefaultMaxQty + 2), h \in {0, 1}}

\* validateQuantity is about to be called with some number
InitQuantity ==
  /\ now = 0
  /\ storeTtl = MaxTtl
  /\ engineTtl = MaxTtl
  /\ cleanupInterval = FALSE
  /\ NoObjects
  /\ carts = << >>
  /\ heap = [r \in ArrayRefs |-> << >>]
  /\ nextCartId = 0
  /\ nextItemId = 0
  /\ nextArr = 0
  /\ clears = 0
  /\ calls = 0
  /\ pc = [k \in Callers |-> IF k = 1 THEN "validateQuantity" ELSE "idle"]
  /\ \E quantity \in NumberInputs, bounds \in QuantityBounds :
       local = [k \in Callers |->
                  IF k = 1
                  THEN [cart |-> NoCart,
                        args |-> [quantity |-> quantity,
                                  minQty |-> bounds[1], maxQty |-> bounds[2]]]
                  ELSE NoLocal]
  /\ last = NoOutcome
  /\ expiredSeen = {}
  /\ deleted = {}

\* this.validateQuantity(quantity): returns, or throws ValidationError
ValidateQuantity ==
  /\ pc[1] = "validateQuantity"
  /\ last' = Outcome("validateQuantity", 0,
                     IF validateQuantityWith(local[1].args.quantity,
                                             local[1].args.minQty, local[1].args.maxQty)
                     THEN "ok" ELSE "Validation",
                     "quantity", NoCart)
  /\ pc' = [pc EXCEPT ![1] = "idle"]
  /\ UNCHANGED <<now, config, carts, heap, counters, calls, local, history>>

NextQuantity == ValidateQuantity

SpecQuantity == InitQuantity /\ [][NextQuantity]_vars

\* ------------------------------------ CartService.validateProduct on its own
\* values of type Product: each field valid or not, price also at 0
ProductInputs ==
  [productId : {"", "prod-001"},
   name : {"", "5G Plan"},
   price : {-1, 0, 1, 7500},
   category : {"plan", "device", "addon", "accessory", "gadget"}]

\* validateProduct is about to be called with some product
InitProduct ==
  /\ now = 0
  /\ storeTtl = MaxTtl
  /\ engineTtl = MaxTtl
  /\ cleanupInterval = FALSE
  /\ NoObjects
  /\ carts = << >>
  /\ heap = [r \in ArrayRefs |-> << >>]
  /\ nextCartId = 0
  /\ nextItemId = 0
  /\ nextArr = 0
  /\ clears = 0
  /\ calls = 0
  /\ pc = [k \in Callers |-> IF k = 1 THEN "validateProduct" ELSE "idle"]
  /\ \E product \in ProductInputs :
       local = [k \in Callers |->
                  IF k = 1
                  THEN [cart |-> NoCart, args |-> [product |-> product]]
                  ELSE NoLocal]
  /\ last = NoOutcome
  /\ expiredSeen = {}
  /\ deleted = {}

\* this.validateProduct(product): returns, or throws ValidationError
ValidateProduct ==
  /\ pc[1] = "validateProduct"
  /\ last' = Outcome("validateProduct", 0,
                     IF validateProduct(local[1].args.product)
                     THEN "ok" ELSE "Validation",
                     "product", NoCart)
  /\ pc' = [pc EXCEPT ![1] = "idle"]
  /\ UNCHANGED <<now, config, carts, heap, counters, calls, local, history>>

NextProduct == ValidateProduct

SpecProduct == InitProduct /\ [][NextProduct]_vars

\* --------------------------------------- SalesforceCartClientMock on its own
\* The store used directly, as its own tests use it: objects built with new or
\* through the singleton, each with its map, its TTL and its interval timer
\* (the timer of object o is timer o), and carts made by the caller.
MaxObjects == 2
MaxStoreCalls == 4

\* what the store's own methods leave alone: the state of CartService
engine == <<storeTtl, engineTtl, cleanupInterval, carts, heap, counters, pc, local, history>>

\* ttlMinutes arguments
TtlInputs == {0, MaxTtl}

\* a cart as a caller of the store builds it (makeCart, then an edit of the
\* amounts): no items, no metadata
StoreCart(cartId, createdAt, subtotal) ==
  [cartId |-> cartId, items |-> 1,
   subtotal |-> subtotal,
   tax |-> RoundDiv(subtotal * TAX_RATE, 100),
   total |-> subtotal + RoundDiv(subtotal * TAX_RATE, 100),
   createdAt |-> createdAt, updatedAt |-> createdAt,
   expiresAt |-> createdAt + MaxTtl,
   metadata |-> "none"]

\* the carts a caller may hand to the store at instant t: created now or earlier
StoreCarts(t) ==
  {StoreCart(c, createdAt, subtotal) :
     c \in UuidShaped, createdAt \in 0..t, subtotal \in {0, 10000}}

InitStore ==
  /\ now = 0
  /\ storeTtl = MaxTtl
  /\ engineTtl = MaxTtl
  /\ cleanupInterval = FALSE
  /\ NoObjects
  /\ carts = << >>
  /\ heap = [r \in ArrayRefs |-> << >>]
  /\ nextCartId = 0
  /\ nextItemId = 0
  /\ nextArr = 0
  /\ clears = 0
  /\ calls = 0
  /\ pc = [k \in Callers |-> "idle"]
  /\ local = [k \in Callers |-> NoLocal]
  /\ last = NoOutcome
  /\ expiredSeen = {}
  /\ deleted = {}

\* a method of the store, static or not, is called
StoreCall == calls < MaxStoreCalls /\ calls' = calls + 1

\* the fields of a new object; its timer, if any, is named after the object
Constructed(o, ttlMinutes, enableAutoCleanup) ==
  [carts |-> << >>, ttlMinutes |-> ttlMinutes,
   cleanupInterval |-> IF enableAutoCleanup THEN o ELSE 0]

\* new SalesforceCartClientMock(ttlMinutes, enableAutoCleanup)
NewClient(ttlMinutes, enableAutoCleanup) ==
  /\ StoreCall
  /\ Len(objects) < MaxObjects
  /\ objects' = Append(objects, Constructed(Len(objects) + 1, ttlMinutes, enableAutoCleanup))
  /\ timers' = IF enableAutoCleanup THEN timers \cup {Len(objects) + 1} ELSE timers
  /\ last' = Outcome("new", 0, "ok", "", NoCart)
  /\ UNCHANGED <<now, instance, engine>>

\* a getInstance that builds a new object whenever the TTL asked for differs
\* from the TTL of the one it holds
GetInstance_PerTtl(ttlMinutes) ==
  /\ StoreCall
  /\ IF instance = 0 \/ objects[instance].ttlMinutes # ttlMinutes
     THEN /\ Len(objects) < MaxObjects
          /\ objects' = Append(objects, Constructed(Len(objects) + 1, ttlMinutes, TRUE))
          /\ timers' = timers \cup {Len(objects) + 1}
          /\ instance' = Len(objects) + 1
     ELSE UNCHANGED <<instance, objects, timers>>
  /\ last' = Outcome("getInstance", 0, "ok", "", NoCart)
  /\ UNCHANGED <<now, engine>>

\* SalesforceCartClientMock.getInstance(ttlMinutes); it returns instance'
GetInstance(ttlMinutes) ==
  /\ StoreCall
  /\ IF instance = 0
     THEN /\ Len(objects) < MaxObjects
          /\ objects' = Append(objects, Constructed(Len(objects) + 1, ttlMinutes, TRUE))
          /\ timers' = timers \cup {Len(objects) + 1}
          /\ instance' = Len(objects) + 1
     ELSE UNCHANGED <<instance, objects, timers>>
  /\ last' = Outcome("getInstance", 0, "ok", "", NoCart)
  /\ UNCHANGED <<now, engine>>

\* SalesforceCartClientMock.resetInstance()
ResetInstance ==
  /\ StoreCall
  /\ timers' = IF instance # 0 /\ objects[instance].cleanupInterval # 0
               THEN timers \ {objects[instance].cleanupInterval}
               ELSE timers
  /\ instance' = 0
  /\ last' = Outcome("resetInstance", 0, "ok", "", NoCart)
  /\ UNCHANGED <<now, objects, engine>>

\* a destroy that forgets the handle without clearing the timer
Destroy_KeepTimer(o) ==
  /\ StoreCall
  /\ objects' = [objects EXCEPT ![o].cleanupInterval = 0]
  /\ last' = Outcome("destroy", 0, "ok", "", NoCart)
  /\ UNCHANGED <<now, instance, timers, engine>>

\* destroy() on object o
Destroy(o) ==
  /\ StoreCall
  /\ IF objects[o].cleanupInterval # 0
     THEN /\ timers' = timers \ {objects[o].cleanupInterval}
          /\ objects' = [objects EXCEPT ![o].cleanupInterval = 0]
     ELSE UNCHANGED <<objects, timers>>
  /\ last' = Outcome("destroy", 0, "ok", "", NoCart)
  /\ UNCHANGED <<now, instance, engine>>

\* the interval timer of object o fires: cleanupExpiredCarts()
CleanupTimer(o) ==
  /\ o \in timers
  /\ objects' = [objects EXCEPT
                   ![o].carts = cleanupExpiredCarts(@, now, objects[o].ttlMinutes)]
  /\ last' = Outcome("cleanupExpiredCarts", 0, "none", "", NoCart)
  /\ UNCHANGED <<now, instance, timers, calls, engine>>

\* createCart(cart) on object o
MockCreateCart(o, cart) ==
  /\ StoreCall
  /\ objects' = [objects EXCEPT ![o].carts = clientCreateCart(@, cart)]
  /\ last' = Outcome("createCart", cart.cartId, "ok", "", Deep(cart, heap))
  /\ UNCHANGED <<now, instance, timers, engine>>

\* getCart(cartId) on object o
MockGetCart(o, cartId) ==
  /\ StoreCall
  /\ LET r == clientGetCart(objects[o].carts, cartId, now, objects[o].ttlMinutes)
     IN /\ objects' = [objects EXCEPT ![o].carts = r.carts]
        /\ last' = IF r.status = "ok"
                   THEN Outcome("getCart", cartId, "ok", "", Deep(r.cart, heap))
                   ELSE Outcome("getCart", cartId, r.status, "Cart", NoCart)
  /\ UNCHANGED <<now, instance, timers, engine>>

\* updateCart(cart) on object o
MockUpdateCart(o, cart) ==
  /\ StoreCall
  /\ LET u == clientUpdateCart(objects[o].carts, cart, now, objects[o].ttlMinutes)
     IN /\ objects' = [objects EXCEPT ![o].carts = u.carts]
        /\ last' = IF u.status = "ok"
                   THEN Outcome("updateCart", cart.cartId, "ok", "", Deep(cart, heap))
                   ELSE Outcome("updateCart", cart.cartId, u.status, "Cart", NoCart)
  /\ UNCHANGED <<now, instance, timers, engine>>

\* deleteCart(cartId) on object o
MockDeleteCart(o, cartId) ==
  /\ StoreCall
  /\ objects' = [objects EXCEPT ![o].carts = clientDeleteCart(@, cartId)]
  /\ last' = Outcome("deleteCart", cartId, "ok", "", NoCart)
  /\ UNCHANGED <<now, instance, timers, engine>>

\* getCartCount() on object o: this.carts.size
cartCount(o) == Cardinality(DOMAIN objects[o].carts)

\* a clearAllCarts that drops only the entries whose TTL has elapsed
ClearAllCarts_ExpiredOnly(o) ==
  /\ StoreCall
  /\ objects' = [objects EXCEPT
                   ![o].carts = cleanupExpiredCarts(@, now, objects[o].ttlMinutes)]
  /\ last' = Outcome("clearAllCarts", 0, "ok", "", NoCart)
  /\ UNCHANGED <<now, instance, timers, engine>>

\* clearAllCarts() on object o
ClearAllCarts(o) ==
  /\ StoreCall
  /\ objects' = [objects EXCEPT ![o].carts = << >>]
  /\ last' = Outcome("clearAllCarts", 0, "ok", "", NoCart)
  /\ UNCHANGED <<now, instance, timers, engine>>

NextStore ==
  \/ Tick
  \/ \E ttlMinutes \in TtlInputs : \E enableAutoCleanup \in BOOLEAN :
       NewClient(ttlMinutes, enableAutoCleanup)
  \/ \E ttlMinutes \in TtlInputs : GetInstance(ttlMinutes)
  \/ ResetInstance
  \/ \E o \in DOMAIN objects : Destroy(o)
  \/ \E o \in DOMAIN objects : CleanupTimer(o)
  \/ \E o \in DOMAIN objects : \E cart \in StoreCarts(now) : MockCreateCart(o, cart)
  \/ \E o \in DOMAIN objects : \E cartId \in UuidShaped : MockGetCart(o, cartId)
  \/ \E o \in DOMAIN objects : \E cart \in StoreCarts(now) : MockUpdateCart(o, cart)
  \/ \E o \in DOMAIN objects : \E cartId \in UuidShaped : MockDeleteCart(o, cartId)
  \/ \E o \in DOMAIN objects : ClearAllCarts(o)

SpecStore == InitStore /\ [][NextStore]_vars

\* -------------------------------------------------------------- SpecNumber
\* Two empty carts, then addItem calls made one after the other, each awaited
\* before the next, with valid input; the new cart is priced in the
\* arithmetic of Number. Prices are in cents: 3.48, 0.01 and 0.01.
MaxNumberCalls == 6

NumberProducts ==
  { [productId |-> "prod-001", name |-> "5G Plan", price |-> 348, category |-> "plan"],
    [productId |-> "prod-002", name |-> "Phone", price |-> 1, category |-> "device"],
    [productId |-> "prod-003", name |-> "Case", price |-> 1, category |-> "addon"] }

InitNumber ==
  /\ now = 0
  /\ storeTtl = MaxTtl
  /\ engineTtl = MaxTtl
  /\ cleanupInterval = FALSE
  /\ NoObjects
  /\ carts = [c \in 1..2 |->
                [cart |-> [cartId |-> c, items |-> c,
                           subtotal |-> 0, tax |-> 0, total |-> 0,
                           createdAt |-> 0, updatedAt |-> 0,
                           expiresAt |-> engineTtl, metadata |-> "web"],
                 createdAt |-> 0]]
  /\ heap = [r \in ArrayRefs |-> << >>]
  /\ nextCartId = 2
  /\ nextItemId = 0
  /\ nextArr = 2
  /\ clears = 0
  /\ calls = 0
  /\ pc = [k \in Callers |-> "idle"]
  /\ local = [k \in Callers |-> NoLocal]
  /\ last = NoOutcome
  /\ expiredSeen = {}
  /\ deleted = {}

\* addItem(cartId, { product, quantity }) from the call to its return
AddItemNumber(cartId, product, quantity) ==
  /\ calls < MaxNumberCalls
  /\ LET r == clientGetCart(carts, cartId, now, storeTtl)
     IN /\ r.status = "ok"
        /\ LET cart == r.cart
               items == heap[cart.items]
               existingIdx == FindProduct(items, product.productId)
               newQty == items[existingIdx].quantity + quantity
               h == IF existingIdx > 0
                    THEN [heap EXCEPT ![cart.items][existingIdx] =
                            SetQuantity(items[existingIdx], newQty)]
                    ELSE [heap EXCEPT ![cart.items] =
                            Append(items, NewItem(nextItemId + 1, product, quantity, now))]
               priced == calculatePricingNumber(cart, h, now)
               u == clientUpdateCart(carts, priced, now, storeTtl)
           IN IF existingIdx > 0 /\ ExceedsMax(newQty)
              THEN /\ last' = Outcome("addItem", cartId, "Validation", "merge", NoCart)
                   /\ UNCHANGED <<carts, heap, nextItemId>>
              ELSE /\ heap' = h
                   /\ carts' = u.carts
                   /\ last' = Outcome("addItem", cartId, "ok", "", Deep(priced, h))
                   /\ nextItemId' = IF existingIdx > 0 THEN nextItemId ELSE nextItemId + 1
  /\ calls' = calls + 1
  /\ UNCHANGED <<now, config, nextCartId, nextArr, clears, pc, local, history>>

NextNumber ==
  \E cartId \in DOMAIN carts : \E product \in NumberProducts :
    AddItemNumber(cartId, product, 1)

SpecNumber == InitNumber /\ [][NextNumber]_vars

\* ------------------------------------------------------------------ claims
StoredItems(c) == heap[carts[c].cart.items]

\* the step resumes the method suspended in slot k
Resumed(k, op) == pc[k] = op /\ pc'[k] = "idle"

Mutators == {"addItem", "removeItem", "updateItemQuantity", "clearCart"}

\* the sum of the totalPrice of the items, by index
RECURSIVE SumUpTo(_, _)
SumUpTo(items, n) == IF n = 0 THEN 0 ELSE items[n].totalPrice + SumUpTo(items, n - 1)

\* tax is subtotal * 9 / 100 rounded half up to a whole cent
IsTaxOf(tax, subtotal) ==
  /\ 100 * tax <= 9 * subtotal + 50
  /\ 100 * tax > 9 * subtotal - 50

\* C1: an addItem that finds its product in the cart with
\* existing.quantity + quantity > maxQty fails with Validation and changes
\* neither the store nor any items array (no clamping, no partial merge).
C1_RejectedMergeLeavesCart ==
  [][\A k \in Callers :
       (/\ Resumed(k, "addItem")
        /\ LET items == heap[local[k].cart.items]
               idx == FindProduct(items, local[k].args.product.productId)
           IN /\ idx > 0
              /\ items[idx].quantity + local[k].args.quantity > maxQty)
       => /\ last'.op = "addItem"
          /\ last'.status = "Validation"
          /\ carts' = carts
          /\ heap' = heap]_vars

\* a merge has just been rejected and the stored cart still holds its single
\* item with a quantity below maxQty
C1_Witness ==
  /\ last.op = "addItem" /\ last.status = "Validation" /\ last.what = "merge"
  /\ last.cartId \in DOMAIN carts
  /\ Len(StoredItems(last.cartId)) = 1
  /\ StoredItems(last.cartId)[1].quantity < maxQty
  /\ carts[last.cartId].cart.subtotal = StoredItems(last.cartId)[1].totalPrice

\* C2: every item of every stored cart has an integer quantity within
\* [minQty, maxQty].
C2_QuantityInRange ==
  \A c \in DOMAIN carts : \A i \in 1..Len(StoredItems(c)) :
    /\ StoredItems(c)[i].quantity \in Int
    /\ minQty <= StoredItems(c)[i].quantity
    /\ StoredItems(c)[i].quantity <= maxQty

\* a stored cart holds an item at minQty and an item at maxQty
C2_Witness ==
  \E c \in DOMAIN carts : \E i, j \in 1..Len(StoredItems(c)) :
    /\ StoredItems(c)[i].quantity = minQty
    /\ StoredItems(c)[j].quantity = maxQty

\* C3: no stored cart holds two items that reference the same product id.
C3_ProductUnique ==
  \A c \in DOMAIN carts : \A i, j \in 1..Len(StoredItems(c)) :
    StoredItems(c)[i].product.productId = StoredItems(c)[j].product.productId
      => i = j

\* an addItem has completed on a cart while another addItem for the same
\* product, which read the cart before, is still suspended
C3_Witness ==
  /\ pc[1] = "addItem"
  /\ last.op = "addItem" /\ last.status = "ok"
  /\ last.cartId = local[1].cart.cartId
  /\ \E i \in 1..Len(last.cart.items) :
       last.cart.items[i].product.productId = local[1].args.product.productId

Prices(items) == [i \in 1..Len(items) |-> items[i].totalPrice]

Completes(op, c) == last'.op = op /\ last'.cartId = c

\* the error is one of the input validations that precede the store read
InputError(o) == o.status = "Validation" /\ o.what \in {"cartId", "quantity", "product"}

\* C6: getCart on an entry whose createdAt + TTL has passed fails with Expired
\* and removes the entry in the same step (Count decreases by one); a cart that
\* getCart returns, to a caller or to a mutation, is not past createdAt + TTL.
C6_GetNeverReturnsExpired ==
  [][/\ \A c \in DOMAIN carts :
          (Completes("getCart", c) /\ now > carts[c].createdAt + storeTtl)
            => /\ last'.status = "Expired"
               /\ c \notin DOMAIN carts'
               /\ Cardinality(DOMAIN carts') = Cardinality(DOMAIN carts) - 1
     /\ (last'.op = "getCart" /\ last'.status = "ok")
          => /\ last'.cartId \in DOMAIN carts
             /\ now <= carts[last'.cartId].createdAt + storeTtl
             /\ now <= last'.cart.createdAt + storeTtl
     /\ \A k \in Callers :
          (pc[k] = "idle" /\ pc'[k] \in Mutators)
            => now <= local'[k].cart.createdAt + storeTtl]_vars

\* getCart has just failed with Expired; its entry is gone and another cart
\* is still stored
C6_Witness ==
  /\ last.op = "getCart" /\ last.status = "Expired"
  /\ last.cartId \notin DOMAIN carts
  /\ DOMAIN carts # {}

\* C7: for a cart that was created and never deleted, a getCart issued after
\* createdAt + TTL fails with Expired when no call has reported the expiration
\* yet, and with NotFound once one has, whether or not the sweep has run.
C7_ExpiredThenNotFound ==
  [][\A c \in 1..nextCartId :
       (/\ Completes("getCart", c)
        /\ c \notin deleted
        /\ c \in DOMAIN carts => now > carts[c].createdAt + storeTtl)
       => IF c \in expiredSeen
          THEN last'.status = "NotFound"
          ELSE last'.status = "Expired"]_vars

\* C8 as claimed: once a call on cart id c has failed with Expired, every later
\* call on c with well-formed input fails with NotFound.
C8_AfterExpiredNotFound ==
  [][\A c \in expiredSeen :
       (last'.cartId = c /\ last'.op \in Mutators \cup {"getCart"} /\ ~InputError(last'))
         => last'.status = "NotFound"]_vars

\* C8 as amended: ... fails with NotFound, except an addItem that read c before
\* the eviction and finds its product in that cart at a quantity the merge
\* would take above maxQty, which fails with Validation; so at most one call
\* per cart reports Expired.
C8_AfterExpiredNotFoundOrMerge ==
  [][\A c \in expiredSeen :
       (last'.cartId = c /\ last'.op \in Mutators \cup {"getCart"} /\ ~InputError(last'))
         => \/ last'.status = "NotFound"
            \/ /\ last'.op = "addItem"
               /\ last'.status = "Validation" /\ last'.what = "merge"
               /\ \E k \in Callers : Resumed(k, "addItem")]_vars

\* a clearCart that read its cart before the expiration was reported has been
\* resumed and failed with NotFound
C8_Witness ==
  /\ last.op = "clearCart" /\ last.status = "NotFound"
  /\ last.cartId \in expiredSeen
  /\ clears = 1 /\ nextArr = nextCartId + 1

\* C9: no step changes the expiration anchor of a stored entry, nor the
\* createdAt or expiresAt of its cart; the anchor is the cart's createdAt.
C9_AbsoluteExpiration ==
  [][/\ \A c \in DOMAIN carts \cap DOMAIN carts' :
          /\ carts'[c].createdAt = carts[c].createdAt
          /\ carts'[c].cart.createdAt = carts[c].cart.createdAt
          /\ carts'[c].cart.expiresAt = carts[c].cart.expiresAt
     /\ \A c \in DOMAIN carts' :
          carts'[c].createdAt = carts'[c].cart.createdAt]_vars

\* a cart has just been written back at a later instant than its creation
C9_Witness ==
  /\ last.op \in Mutators /\ last.status = "ok"
  /\ last.cartId \in DOMAIN carts
  /\ carts[last.cartId].cart.updatedAt > carts[last.cartId].cart.createdAt
  /\ carts[last.cartId].createdAt = carts[last.cartId].cart.createdAt

\* C10: getCart on a stored entry succeeds exactly when now <= createdAt + TTL;
\* a successful getCart returns the stored cart and changes nothing in the
\* store; and the stored cart only changes in a successful mutation of that
\* id, to the cart that mutation returns (so what getCart returns is the data
\* last written).
C10_GetReturnsStored ==
  [][/\ \A c \in DOMAIN carts :
          Completes("getCart", c)
            => /\ last'.status = "ok" <=> now <= carts[c].createdAt + storeTtl
               /\ last'.status = "ok"
                    => /\ last'.cart = Deep(carts[c].cart, heap)
                       /\ carts' = carts
                       /\ heap' = heap
     /\ \A c \in DOMAIN carts \cap DOMAIN carts' :
          Deep(carts'[c].cart, heap') # Deep(carts[c].cart, heap)
            => /\ last'.op \in Mutators /\ last'.status = "ok" /\ last'.cartId = c
               /\ last'.cart = Deep(carts'[c].cart, heap')]_vars

\* getCart has just returned a cart with an item at the boundary instant
\* createdAt + TTL
C10_Witness ==
  /\ last.op = "getCart" /\ last.status = "ok"
  /\ storeTtl > 0
  /\ now = last.cart.createdAt + storeTtl
  /\ last.cart.items # << >>
  /\ last.cart.updatedAt = now

\* the method suspended in slot k gets as far as client.updateCart when resumed
ReachesUpdate(k) ==
  LET items == heap[local[k].cart.items]
  IN CASE pc[k] = "addItem" ->
            LET idx == FindProduct(items, local[k].args.product.productId)
            IN ~(idx > 0 /\ items[idx].quantity + local[k].args.quantity > maxQty)
       [] pc[k] \in {"removeItem", "updateItemQuantity"} ->
            FindItem(items, local[k].args.itemId) > 0
       [] pc[k] = "clearCart" -> TRUE
       [] OTHER -> FALSE

\* C11: a cart id that has been handed out and is absent from the store is
\* absent after every step; a mutation that read the cart before its removal
\* and reaches its write afterwards fails with NotFound and leaves the store
\* as it is.
C11_NeverResurrected ==
  [][/\ \A c \in 1..nextCartId : c \notin DOMAIN carts => c \notin DOMAIN carts'
     /\ \A k \in Callers :
          (/\ pc[k] \in Mutators /\ pc'[k] = "idle"
           /\ local[k].cart.cartId \notin DOMAIN carts
           /\ ReachesUpdate(k))
          => /\ last'.op = pc[k] /\ last'.cartId = local[k].cart.cartId
             /\ last'.status = "NotFound" /\ last'.what = "Cart"
             /\ carts' = carts]_vars

\* an addItem read its cart, deleteCart removed the cart, and the addItem,
\* resumed, pushed its item and failed with NotFound
C11_Witness ==
  /\ last.op = "addItem" /\ last.status = "NotFound" /\ last.what = "Cart"
  /\ last.cartId \in deleted
  /\ last.cartId \notin DOMAIN carts
  /\ nextItemId = 1 /\ calls = 3

LinesOf(items, productId) ==
  {i \in 1..Len(items) : items[i].product.productId = productId}

\* C13: an addItem that finds its product id in the cart at index idx with
\* existing.quantity + quantity <= maxQty never fails with Validation; when its
\* write succeeds the returned cart has the same number of items, exactly one
\* of them for that product, equal to the existing item but for its quantity,
\* now existing.quantity + quantity, and its totalPrice, now
\* round2(unitPrice * new quantity); every other item is unchanged, and pricing
\* is that of the new items.  For the same product value the merged item is the
\* item a single addItem of the summed quantity pushes.
C13_MergeAccumulates ==
  [][\A k \in Callers :
       LET cart == local[k].cart
           request == local[k].args
           items == heap[cart.items]
           idx == FindProduct(items, request.product.productId)
           newQty == items[idx].quantity + request.quantity
           after == last'.cart.items
       IN (/\ Resumed(k, "addItem")
           /\ idx > 0
           /\ newQty <= maxQty)
          => /\ last'.op = "addItem"
             /\ last'.status \in {"ok", "NotFound", "Expired"}
             /\ last'.status = "ok"
                  <=> /\ cart.cartId \in DOMAIN carts
                      /\ now <= carts[cart.cartId].createdAt + storeTtl
             /\ nextItemId' = nextItemId
             /\ last'.status = "ok"
                  => /\ Len(after) = Len(items)
                     /\ LinesOf(after, request.product.productId) = {idx}
                     /\ after[idx] = [items[idx] EXCEPT
                                        !.quantity = newQty,
                                        !.totalPrice = RoundDiv(items[idx].unitPrice * newQty, 1)]
                     /\ \A i \in 1..Len(items) : i # idx => after[i] = items[i]
                     /\ items[idx].product = request.product
                          => after[idx] = NewItem(items[idx].itemId, request.product,
                                                  newQty, items[idx].addedAt)
                     /\ last'.cart.subtotal = SumUpTo(after, Len(after))
                     /\ IsTaxOf(last'.cart.tax, last'.cart.subtotal)
                     /\ last'.cart.total = last'.cart.subtotal + last'.cart.tax
                     /\ Deep(carts'[cart.cartId].cart, heap') = last'.cart]_vars

\* an addItem at a later instant than the one that pushed the cart's only item
\* has merged into it and brought it to exactly maxQty
C13_Witness ==
  /\ last.op = "addItem" /\ last.status = "ok"
  /\ Len(last.cart.items) = 1
  /\ last.cart.items[1].quantity = maxQty
  /\ last.cart.items[1].addedAt < last.cart.updatedAt
  /\ last.cart.items[1].totalPrice = last.cart.items[1].unitPrice * maxQty
  /\ last.cart.subtotal = last.cart.items[1].totalPrice
  /\ nextItemId = 1

\* C14: validateQuantity accepts a number exactly when it is an integer with
\* minQty <= quantity <= maxQty and otherwise throws ValidationError; with the
\* default bounds [1, 99] it rejects 0 and 100 and accepts 1 and 99.
C14_QuantityValidation ==
  last.op = "validateQuantity" =>
    LET quantity == local[1].args.quantity
        lo == local[1].args.minQty
        hi == local[1].args.maxQty
    IN /\ last.status \in {"ok", "Validation"}
       /\ last.status = "ok" <=> (quantity[2] = 0 /\ lo <= quantity[1] /\ quantity[1] <= hi)
       /\ (lo = 1 /\ hi = 99) =>
            /\ quantity \in {<<0, 0>>, <<100, 0>>} => last.status = "Validation"
            /\ quantity \in {<<1, 0>>, <<99, 0>>} => last.status = "ok"

\* a number between the bounds that is not an integer has been rejected
C14_Witness ==
  /\ last.op = "validateQuantity" /\ last.status = "Validation"
  /\ local[1].args.quantity = <<DefaultMaxQty - 1, 1>>
  /\ local[1].args.maxQty = DefaultMaxQty

\* the step completes a call of op on cartId with a ValidationError and leaves
\* the store, the items arrays and the suspended calls as they are
Rejects(op, cartId) ==
  /\ last'.op = op /\ last'.cartId = cartId
  /\ last'.status = "Validation"
  /\ InputError(last')
  /\ carts' = carts
  /\ heap' = heap
  /\ pc' = pc /\ local' = local
  /\ expiredSeen' = expiredSeen /\ deleted' = deleted

\* C15: a call with a cart id that is not of UUID shape (every method), a
\* quantity that validateQuantity refuses (addItem, updateItemQuantity) or a
\* product that validateProduct refuses (addItem) fails with Validation in
\* every state of the cart and changes nothing: the store is not read, so an
\* expired entry stays in it.
C15_ValidationBeforeStore ==
  [][\A k \in Callers : Enter(k) =>
       /\ \A cartId \in CartIdInputs \ UuidShaped :
            /\ GetCart(cartId) => Rejects("getCart", cartId)
            /\ DeleteCart(cartId) => Rejects("deleteCart", cartId)
            /\ ClearCartStart(k, cartId) => Rejects("clearCart", cartId)
            /\ \A itemId \in ItemIdInputs :
                 RemoveItemStart(k, cartId, itemId) => Rejects("removeItem", cartId)
       /\ \A cartId \in CartIdInputs, quantity \in QuantityInputs :
            (~validateCartId(cartId) \/ ~validateQuantity(quantity))
              => \A itemId \in ItemIdInputs :
                   UpdateItemQuantityStart(k, cartId, itemId, quantity)
                     => Rejects("updateItemQuantity", cartId)
       /\ \A cartId \in CartIdInputs, quantity \in QuantityInputs, product \in Products :
            (\/ ~validateCartId(cartId)
             \/ ~validateQuantity(quantity)
             \/ ~validateProduct(product))
              => (AddItemStart(k, cartId, product, quantity)
                    => Rejects("addItem", cartId))]_vars

\* an addItem on a cart past its createdAt + TTL has been refused for its
\* quantity or its product, and the expired entry is still in the store
C15_Witness ==
  /\ last.op = "addItem" /\ last.status = "Validation"
  /\ last.what \in {"quantity", "product"}
  /\ last.cartId \in DOMAIN carts
  /\ now > carts[last.cartId].createdAt + storeTtl

\* C16: validateProduct throws ValidationError exactly when the product's id
\* is empty, its name is empty, its price is negative or its category is not
\* one of plan, device, addon, accessory; price 0 with the other fields valid
\* is accepted.
C16_ProductValidation ==
  last.op = "validateProduct" =>
    LET product == local[1].args.product
        refused == \/ product.productId = ""
                   \/ product.name = ""
                   \/ product.price < 0
                   \/ product.category \notin {"plan", "device", "addon", "accessory"}
    IN /\ last.status \in {"ok", "Validation"}
       /\ last.status = "Validation" <=> refused
       /\ (product.price = 0 /\ product.productId # "" /\ product.name # ""
             /\ product.category \in {"plan", "device", "addon", "accessory"})
            => last.status = "ok"

\* a product with price 0 and valid id, name and category has been accepted
C16_Witness ==
  /\ last.op = "validateProduct" /\ last.status = "ok"
  /\ local[1].args.product.price = 0
  /\ local[1].args.product.category = "accessory"

\* C17: getCart(cartId) has four outcomes, decided in this order: Validation
\* when cartId is not of UUID shape; NotFound when the store has no entry for
\* it; Expired when the entry's createdAt + TTL has passed; otherwise the
\* stored cart.
C17_GetCartOutcomes ==
  [][\A k \in Callers : Enter(k) =>
       \A cartId \in CartIdInputs :
         GetCart(cartId)
           => /\ last'.op = "getCart" /\ last'.cartId = cartId
              /\ last'.status =
                   IF cartId \notin UuidShaped THEN "Validation"
                   ELSE IF cartId \notin DOMAIN carts THEN "NotFound"
                   ELSE IF now > carts[cartId].createdAt + storeTtl THEN "Expired"
                   ELSE "ok"
              /\ last'.status = "ok" => last'.cart = Deep(carts[cartId].cart, heap)
              /\ last'.status # "ok" => last'.cart = NoCart]_vars

\* getCart has failed with NotFound for a well-formed id that no cart ever had,
\* while a cart past its createdAt + TTL is in the store
C17_Witness ==
  /\ last.op = "getCart" /\ last.status = "NotFound"
  /\ last.cartId \in UuidShaped /\ last.cartId > nextCartId
  /\ \E c \in DOMAIN carts : now > carts[c].createdAt + storeTtl

\* the entry of cart id c is in the store and past its createdAt + TTL
ExpiredInStore(c) == c \in DOMAIN carts /\ now > carts[c].createdAt + storeTtl

\* C18: a mutation with valid input whose cart is past createdAt + TTL when
\* the method reads it, or when the method reaches its write-back, fails with
\* Expired and removes the entry; and what a mutation that fails with Expired
\* did to the cart is seen by no operation that runs after it: the other
\* entries of the store and the items arrays of the suspended calls are as
\* they were.
C18_NoMutationOnExpired ==
  [][/\ \A c \in UuidShaped :
          (/\ calls' = calls + 1
           /\ last'.op \in Mutators /\ last'.cartId = c /\ ~InputError(last')
           /\ ExpiredInStore(c))
          => last'.status = "Expired" /\ c \notin DOMAIN carts'
     /\ \A k \in Callers :
          (/\ pc[k] \in Mutators /\ pc'[k] = "idle"
           /\ ReachesUpdate(k)
           /\ ExpiredInStore(local[k].cart.cartId))
          => /\ last'.op = pc[k]
             /\ last'.status = "Expired"
             /\ local[k].cart.cartId \notin DOMAIN carts'
     /\ \A k \in Callers :
          (/\ pc[k] \in Mutators /\ pc'[k] = "idle"
           /\ last'.status = "Expired")
          => /\ \A c \in DOMAIN carts' :
                  Deep(carts'[c].cart, heap') = Deep(carts[c].cart, heap)
             /\ \A j \in Callers \ {k} :
                  pc[j] \in Mutators
                    => heap'[local[j].cart.items] = heap[local[j].cart.items]]_vars

\* the cart the suspended method holds is in the store and not past its
\* createdAt + TTL, so its write-back succeeds
Live(c) == c \in DOMAIN carts /\ now <= carts[c].createdAt + storeTtl

\* C19: removeItem resumed on a live cart: when no item of the cart has the
\* itemId it fails with NotFound and store and items are unchanged; otherwise
\* the returned and stored cart holds the items it held, in their order and
\* unchanged, without the one with that itemId, and subtotal, tax and total are
\* those of the remaining items (with one item left, subtotal is its totalPrice).
C19_RemoveItem ==
  [][\A k \in Callers :
       LET cart == local[k].cart
           itemId == local[k].args.itemId
           items == heap[cart.items]
           idx == FindItem(items, itemId)
           after == last'.cart.items
       IN (Resumed(k, "removeItem") /\ Live(cart.cartId))
          => /\ last'.op = "removeItem" /\ last'.cartId = cart.cartId
             /\ (\A i \in 1..Len(items) : items[i].itemId # itemId)
                  => /\ last'.status = "NotFound" /\ last'.what = "Item"
                     /\ carts' = carts /\ heap' = heap
             /\ (\E i \in 1..Len(items) : items[i].itemId = itemId)
                  => /\ last'.status = "ok"
                     /\ Len(after) = Len(items) - 1
                     /\ \A i \in 1..Len(after) : after[i].itemId # itemId
                     /\ \A i \in 1..Len(items) :
                          i < idx => after[i] = items[i]
                     /\ \A i \in 1..Len(items) :
                          i > idx => after[i - 1] = items[i]
                     /\ last'.cart.subtotal = SumUpTo(after, Len(after))
                     /\ IsTaxOf(last'.cart.tax, last'.cart.subtotal)
                     /\ last'.cart.total = last'.cart.subtotal + last'.cart.tax
                     /\ Len(after) = 1 => last'.cart.subtotal = after[1].totalPrice
                     /\ Deep(carts'[cart.cartId].cart, heap') = last'.cart
                     /\ \A c \in DOMAIN carts \ {cart.cartId} :
                          c \in DOMAIN carts' /\ carts'[c] = carts[c]]_vars

\* the second of two items has been removed and the subtotal is the
\* totalPrice of the first
C19_Witness ==
  /\ last.op = "removeItem" /\ last.status = "ok"
  /\ nextItemId = 2
  /\ Len(last.cart.items) = 1
  /\ last.cart.items[1].itemId = 1
  /\ last.cart.subtotal = last.cart.items[1].totalPrice
  /\ last.cart.subtotal > 0

\* C20: updateItemQuantity with a quantity q in [minQty, maxQty], resumed on a
\* live cart: when no item of the cart has the itemId it fails with NotFound
\* and store and items are unchanged; otherwise the item's quantity is q,
\* whatever it was, its totalPrice round2(unitPrice * q), nothing else in the
\* items changes and pricing is that of the new items; when the item is at q
\* already neither the items nor the stored subtotal, tax and total change.
C20_UpdateItemQuantity ==
  [][\A k \in Callers :
       LET cart == local[k].cart
           itemId == local[k].args.itemId
           q == local[k].args.quantity
           items == heap[cart.items]
           idx == FindItem(items, itemId)
           after == last'.cart.items
           stored == carts[cart.cartId].cart
       IN (Resumed(k, "updateItemQuantity") /\ Live(cart.cartId))
          => /\ last'.op = "updateItemQuantity" /\ last'.cartId = cart.cartId
             /\ minQty <= q /\ q <= maxQty
             /\ (\A i \in 1..Len(items) : items[i].itemId # itemId)
                  => /\ last'.status = "NotFound" /\ last'.what = "Item"
                     /\ carts' = carts /\ heap' = heap
             /\ (\E i \in 1..Len(items) : items[i].itemId = itemId)
                  => /\ last'.status = "ok"
                     /\ Len(after) = Len(items)
                     /\ after[idx] = [items[idx] EXCEPT
                                        !.quantity = q,
                                        !.totalPrice = RoundDiv(items[idx].unitPrice * q, 1)]
                     /\ \A i \in 1..Len(items) : i # idx => after[i] = items[i]
                     /\ last'.cart.subtotal = SumUpTo(after, Len(after))
                     /\ IsTaxOf(last'.cart.tax, last'.cart.subtotal)
                     /\ last'.cart.total = last'.cart.subtotal + last'.cart.tax
                     /\ Deep(carts'[cart.cartId].cart, heap') = last'.cart
                     /\ items[idx].quantity = q
                          => /\ after = items
                             /\ heap' = heap
                             /\ stored.items = cart.items
                                  => carts'[cart.cartId] =
                                       [carts[cart.cartId] EXCEPT !.cart.updatedAt = now]]_vars

\* updateItemQuantity has set the only item of a cart with a positive subtotal
\* to minQty
C20_Witness ==
  /\ last.op = "updateItemQuantity" /\ last.status = "ok"
  /\ Len(last.cart.items) = 1
  /\ last.cart.items[1].quantity = minQty
  /\ last.cart.items[1].totalPrice = last.cart.items[1].unitPrice * minQty
  /\ last.cart.subtotal = last.cart.items[1].totalPrice
  /\ last.cart.tax > 0

\* C21: clearCart resumed on a live cart succeeds; the returned and stored
\* cart has no items and subtotal = tax = total = 0, and the cartId, createdAt,
\* expiresAt and metadata of the cart that was stored; the entry stays in the
\* store with its expiration anchor, and a getCart right after it succeeds and
\* returns the empty cart.
C21_ClearKeepsSession ==
  [][/\ \A k \in Callers :
          LET cart == local[k].cart
              c == cart.cartId
          IN (Resumed(k, "clearCart") /\ Live(c))
             => /\ last'.op = "clearCart" /\ last'.cartId = c
                /\ last'.status = "ok"
                /\ last'.cart.items = << >>
                /\ last'.cart.subtotal = 0 /\ last'.cart.tax = 0 /\ last'.cart.total = 0
                /\ c \in DOMAIN carts'
                /\ Deep(carts'[c].cart, heap') = last'.cart
                /\ carts'[c].cart.cartId = c
                /\ carts'[c].cart.createdAt = carts[c].cart.createdAt
                /\ carts'[c].cart.expiresAt = carts[c].cart.expiresAt
                /\ carts'[c].cart.metadata = carts[c].cart.metadata
                /\ carts'[c].createdAt = carts[c].createdAt
                /\ DOMAIN carts' = DOMAIN carts
     /\ (last.op = "clearCart" /\ last.status = "ok" /\ Completes("getCart", last.cartId))
          => /\ last'.status = "ok"
             /\ last'.cart.items = << >>
             /\ last'.cart.createdAt = last.cart.createdAt
             /\ last'.cart.expiresAt = last.cart.expiresAt]_vars

\* a cart created at instant 0 that held an item has been cleared at instant 1
\* and is in the store, empty, with its anchor at 0
C21_Witness ==
  /\ last.op = "clearCart" /\ last.status = "ok" /\ last.cartId = 1
  /\ heap[1] # << >>
  /\ now = 1
  /\ 1 \in DOMAIN carts
  /\ carts[1].createdAt = 0
  /\ StoredItems(1) = << >>
  /\ carts[1].cart.total = 0

\* C22: createCart(metadata) returns and stores a cart under an id that no
\* cart had before, with no items, subtotal = tax = total = 0, createdAt = now,
\* updatedAt = createdAt, expiresAt - createdAt equal to the engine's TTL and
\* the metadata it was given; the store holds one entry more and its other
\* entries are unchanged; a getCart of the new id right after it returns that
\* cart.
C22_CreateCart ==
  [][/\ \A k \in Callers : Enter(k) =>
          \A metadata \in MetadataInputs :
            CreateCart(metadata)
              => LET c == last'.cartId
                     cart == last'.cart
                 IN /\ last'.op = "createCart" /\ last'.status = "ok"
                    /\ validateCartId(c)
                    /\ c \notin 1..nextCartId
                    /\ c \notin DOMAIN carts
                    /\ cart.cartId = c
                    /\ cart.items = << >>
                    /\ cart.subtotal = 0 /\ cart.tax = 0 /\ cart.total = 0
                    /\ cart.createdAt = now
                    /\ cart.updatedAt = cart.createdAt
                    /\ cart.expiresAt - cart.createdAt = engineTtl
                    /\ cart.metadata = metadata
                    /\ DOMAIN carts' = DOMAIN carts \cup {c}
                    /\ Cardinality(DOMAIN carts') = Cardinality(DOMAIN carts) + 1
                    /\ \A x \in DOMAIN carts :
                         /\ carts'[x] = carts[x]
                         /\ heap'[carts[x].cart.items] = heap[carts[x].cart.items]
                    /\ Deep(carts'[c].cart, heap') = cart
                    /\ carts'[c].createdAt = cart.createdAt
     /\ (last.op = "createCart" /\ Completes("getCart", last.cartId))
          => /\ last'.status = "ok"
             /\ last'.cart = last.cart]_vars

\* a second cart has been created, without metadata, at a later instant than
\* the first, which is still in the store
C22_Witness ==
  /\ last.op = "createCart" /\ last.status = "ok" /\ last.cartId = 2
  /\ last.cart.metadata = "none"
  /\ DOMAIN carts = {1, 2}
  /\ carts[1].createdAt < carts[2].createdAt
  /\ carts[2].cart.expiresAt = now + engineTtl

\* every item held in some items array, with the array and its index
ItemsHeld(h) == UNION {{<<r, i>> : i \in 1..Len(h[r])} : r \in ArrayRefs}

\* C23: the unitPrice and the product record of an item are those of the
\* addItem request that created it and no step changes them, in any array that
\* holds the item; an addItem that finds its product in the cart, whatever the
\* price of its request, adds the quantities, keeps the item's unitPrice and
\* product record and computes totalPrice from that unitPrice.
C23_PriceSnapshot ==
  [][/\ \A a \in ItemsHeld(heap) : \A b \in ItemsHeld(heap') :
          heap[a[1]][a[2]].itemId = heap'[b[1]][b[2]].itemId
            => /\ heap'[b[1]][b[2]].unitPrice = heap[a[1]][a[2]].unitPrice
               /\ heap'[b[1]][b[2]].product = heap[a[1]][a[2]].product
     /\ \A k \in Callers :
          (Resumed(k, "addItem") /\ last'.status = "ok")
            => LET request == local[k].args
                   items == heap[local[k].cart.items]
                   idx == FindProduct(items, request.product.productId)
                   after == last'.cart.items
               IN IF idx = 0
                  THEN /\ Len(after) = Len(items) + 1
                       /\ after[Len(after)].itemId = nextItemId'
                       /\ nextItemId' = nextItemId + 1
                       /\ after[Len(after)].unitPrice = request.product.price
                       /\ after[Len(after)].product = request.product
                       /\ after[Len(after)].totalPrice
                            = request.product.price * request.quantity
                  ELSE /\ Len(after) = Len(items)
                       /\ after[idx].itemId = items[idx].itemId
                       /\ after[idx].quantity = items[idx].quantity + request.quantity
                       /\ after[idx].unitPrice = items[idx].unitPrice
                       /\ after[idx].product = items[idx].product
                       /\ after[idx].totalPrice
                            = items[idx].unitPrice * after[idx].quantity]_vars

\* an addItem of prod-001 at 80.00 is suspended on a live cart whose stored
\* items hold prod-001 at 75.00, one unit, added at an earlier instant: its
\* merge is the next thing it does
C23_Witness ==
  \E k \in Callers :
    /\ pc[k] = "addItem"
    /\ local[k].args.product.productId = "prod-001"
    /\ local[k].args.product.price = 8000
    /\ local[k].args.quantity = 1
    /\ local[k].cart.cartId \in DOMAIN carts
    /\ Live(local[k].cart.cartId)
    /\ carts[local[k].cart.cartId].cart.items = local[k].cart.items
    /\ LET items == heap[local[k].cart.items]
       IN /\ Len(items) = 1
          /\ items[1].product.productId = "prod-001"
          /\ items[1].unitPrice = 7500
          /\ items[1].quantity = 1
          /\ items[1].addedAt < now

\* C24: in every reachable state every item of every stored cart has
\* totalPrice = unitPrice * quantity (whole cents), whether the item was just
\* created, merged into or given a new quantity.
C24_TotalPriceDerived ==
  \A c \in DOMAIN carts :
    \A i \in 1..Len(StoredItems(c)) :
      StoredItems(c)[i].totalPrice
        = StoredItems(c)[i].unitPrice * StoredItems(c)[i].quantity

\* an updateItemQuantity has just set one of the two items of a stored cart to
\* two units, next to an item created with one unit
C24_Witness ==
  /\ last.op = "updateItemQuantity" /\ last.status = "ok"
  /\ last.cartId \in DOMAIN carts
  /\ LET items == StoredItems(last.cartId)
     IN /\ Len(items) = 2
        /\ items[1].quantity = 2 /\ items[1].unitPrice = 3333
        /\ items[1].totalPrice = 6666
        /\ items[2].quantity = 1 /\ items[2].totalPrice = items[2].unitPrice

\* the step completed a call that threw
Failed(outcome) == outcome.status \notin {"ok", "none"}

\* C25: a call that fails fails with Validation (400), NotFound (404) or
\* Expired (410); no call, in any state or interleaving, fails with
\* Conflict (409).
C25_ThreeFailureKinds ==
  Failed(last)
    => /\ last.status \in {"Validation", "NotFound", "Expired"}
       /\ last.status = "Validation" <=> statusCode(last.status) = 400
       /\ last.status = "NotFound" <=> statusCode(last.status) = 404
       /\ last.status = "Expired" <=> statusCode(last.status) = 410
       /\ statusCode(last.status) # statusCode("Conflict")

\* an addItem resumed after the clock passed the TTL finds its product at the
\* maximum and fails with Validation, after another call on the cart failed
\* with Expired
C25_Witness ==
  /\ last.op = "addItem" /\ last.status = "Validation" /\ last.what = "merge"
  /\ last.cartId \in expiredSeen
  /\ statusCode(last.status) = 400

\* C26: the store shares no mutable state with its callers: what the store
\* holds for a cart changes only in a step whose updateCart for that cart
\* succeeds, and the cart a suspended call got from getCart is not changed by
\* a step of another call.
C26_NoSharedState ==
  [][/\ \A c \in DOMAIN carts \cap DOMAIN carts' :
          Deep(carts'[c].cart, heap') # Deep(carts[c].cart, heap)
            => /\ last'.op \in Mutators
               /\ last'.status = "ok"
               /\ last'.cartId = c
     /\ \A k \in Callers :
          (pc[k] # "idle" /\ pc'[k] = pc[k])
            => Deep(local'[k].cart, heap') = Deep(local[k].cart, heap)]_vars

\* C27: two mutations a and b of one live cart have both read it; when a's
\* write-back succeeds, the cart b holds is still the snapshot b read, so b
\* goes on to its own write-back exactly as it would have without a (both
\* succeed, a's change is not in what b computes); when b's write-back then
\* succeeds, the stored cart is the cart b computed.
C27_LastWriteWins ==
  [][/\ \A a \in Callers : \A b \in Callers \ {a} :
          (/\ pc[a] \in Mutators /\ pc[b] \in Mutators
           /\ local[a].cart.cartId = local[b].cart.cartId
           /\ Resumed(a, pc[a]) /\ last'.status = "ok")
            => /\ pc'[b] = pc[b]
               /\ Deep(local'[b].cart, heap') = Deep(local[b].cart, heap)
               /\ ReachesUpdate(b)' <=> ReachesUpdate(b)
     /\ \A b \in Callers :
          (/\ pc[b] \in Mutators /\ Resumed(b, pc[b])
           /\ last.op \in Mutators /\ last.status = "ok"
           /\ last.cartId = local[b].cart.cartId
           /\ last'.status = "ok")
            => Deep(carts'[last.cartId].cart, heap') = last'.cart]_vars

\* the step agrees with expiresAt: a call refused as Expired finds the entry
\* past its cart's expiresAt, a cart handed back (to a caller or to a
\* suspended mutation) is not past its expiresAt, and a getCart, a mutation's
\* read or a write-back that finds the entry past expiresAt is refused as
\* Expired
ExpiresAtDecides ==
  /\ last'.status = "Expired"
       => /\ last'.cartId \in DOMAIN carts
          /\ now > carts[last'.cartId].cart.expiresAt
  /\ (last'.status = "ok" /\ last'.cart # NoCart) => now <= last'.cart.expiresAt
  /\ \A k \in Callers :
       /\ (pc[k] = "idle" /\ pc'[k] # "idle") => now <= local'[k].cart.expiresAt
       /\ (/\ pc[k] \in Mutators /\ Resumed(k, pc[k]) /\ ReachesUpdate(k)
           /\ local[k].cart.cartId \in DOMAIN carts
           /\ now > carts[local[k].cart.cartId].cart.expiresAt)
            => last'.status = "Expired"
  /\ (/\ calls' = calls + 1
      /\ last'.op \in Mutators \cup {"getCart"}
      /\ last'.status # "Validation"
      /\ last'.cartId \in DOMAIN carts
      /\ now > carts[last'.cartId].cart.expiresAt)
       => last'.status = "Expired"

\* C28 as claimed: whatever the engine's TTL and the store's TTL are, a call
\* that reaches the cart's entry fails with Expired exactly when
\* now > cart.expiresAt: no cart is returned past its expiresAt and none is
\* refused as Expired before it.
C28_ExpiresAtIsExpiry == [][ExpiresAtDecides]_vars

\* C28 as amended: the same when the engine's TTL equals the store's TTL.
C28_ExpiresAtIsExpiryEqualTtl ==
  [][storeTtl = engineTtl => ExpiresAtDecides]_vars

\* with equal TTLs a call has just failed with Expired while another cart,
\* exactly at its expiresAt, is still stored
C28_Witness ==
  /\ storeTtl = engineTtl
  /\ last.status = "Expired"
  /\ now > engineTtl
  /\ \E c \in DOMAIN carts : carts[c].cart.expiresAt = now /\ Live(c)

\* C29: one run of the sweep removes the entries with now > createdAt + TTL,
\* all of them and only them, accessed since their creation or not, and
\* leaves every other entry as it was: its cart, the items of its cart and
\* its expiration anchor.
C29_SweepRemovesExpired ==
  [][last'.op = "cleanupExpiredCarts"
       => /\ DOMAIN carts'
               = {c \in DOMAIN carts : ~(now > carts[c].createdAt + storeTtl)}
          /\ \A c \in DOMAIN carts' :
               /\ carts'[c] = carts[c]
               /\ Deep(carts'[c].cart, heap') = Deep(carts[c].cart, heap)
          /\ now' = now]_vars

\* the sweep has just removed cart 1, which no call touched after its
\* creation, and kept cart 2 with the item that was added to it
C29_Witness ==
  /\ last.op = "cleanupExpiredCarts"
  /\ nextCartId = 2 /\ calls = 3
  /\ expiredSeen = {} /\ deleted = {}
  /\ DOMAIN carts = {2}
  /\ Len(StoredItems(2)) = 1
  /\ Live(2)

\* no entry of the store is past createdAt + TTL
NoExpiredStored == \A c \in DOMAIN carts : Live(c)

\* C30: while the cleanup interval is set, every stored cart whose
\* createdAt + TTL the clock can pass is eventually absent from the store,
\* whether or not any call names its id again; so the store does not hold an
\* expired entry forever (Count comes back to the number of unexpired carts
\* again and again).
C30_EventuallyReclaimed ==
  /\ \A c \in UuidShaped :
       (c \in DOMAIN carts /\ cleanupInterval /\ carts[c].createdAt + storeTtl < MaxTime)
         ~> (c \notin DOMAIN carts \/ ~cleanupInterval)
  /\ []<>(NoExpiredStored \/ ~cleanupInterval)

\* the sweep has just emptied the store of two carts that no call named after
\* their creation
C30_Witness ==
  /\ last.op = "cleanupExpiredCarts"
  /\ carts = << >>
  /\ nextCartId = 2 /\ calls = 2
  /\ expiredSeen = {} /\ deleted = {}

\* C31: destroy() on a store and resetInstance() on the singleton clear that
\* store's interval timer; a store whose timer is cleared never gets one
\* again and loses no entry to a run of the sweep; a destroy() on a store
\* that was already destroyed changes nothing.
C31_NoSweepAfterTeardown ==
  [][/\ \A o \in DOMAIN objects :
          /\ Destroy(o) => (o \notin timers' /\ objects'[o].carts = objects[o].carts)
          /\ (objects[o].cleanupInterval = 0 /\ Destroy(o))
               => UNCHANGED <<objects, timers, instance>>
          /\ o \notin timers
               => /\ o \notin timers'
                  /\ last'.op = "cleanupExpiredCarts"
                       => objects'[o].carts = objects[o].carts
     /\ (instance # 0 /\ ResetInstance)
          => (instance \notin timers' /\ objects' = objects)]_vars

\* the singleton was reset while it held a cart, that cart's TTL has passed,
\* and the timer of another store has just fired: the cart is still there
C31_Witness ==
  /\ instance = 0
  /\ Len(objects) = 2
  /\ objects[1].cleanupInterval = 1 /\ 1 \notin timers
  /\ 2 \in timers
  /\ last.op = "cleanupExpiredCarts"
  /\ \E c \in DOMAIN objects[1].carts :
       isExpired(objects[1].carts[c], now, objects[1].ttlMinutes)

\* C32: updateCart(cart) on a store without an entry for cart.cartId fails
\* with NotFound and inserts nothing; on an expired entry it removes the entry
\* and fails with Expired; otherwise it replaces the stored cart by the given
\* one, keeps the entry's expiration anchor and returns a cart equal to the
\* one written; a getCart that follows it returns a cart equal to it.
C32_StoreUpdate ==
  [][/\ \A o \in DOMAIN objects : \A cart \in StoreCarts(now) :
          MockUpdateCart(o, cart)
            => LET m == objects[o].carts
                   c == cart.cartId
               IN /\ \A p \in DOMAIN objects \ {o} : objects'[p] = objects[p]
                  /\ \A x \in DOMAIN m \ {c} :
                       x \in DOMAIN objects'[o].carts /\ objects'[o].carts[x] = m[x]
                  /\ IF c \notin DOMAIN m
                     THEN /\ last'.status = "NotFound"
                          /\ objects'[o].carts = m
                     ELSE IF now > m[c].createdAt + objects[o].ttlMinutes
                     THEN /\ last'.status = "Expired"
                          /\ DOMAIN objects'[o].carts = DOMAIN m \ {c}
                     ELSE /\ last'.status = "ok"
                          /\ DOMAIN objects'[o].carts = DOMAIN m
                          /\ Deep(objects'[o].carts[c].cart, heap') = Deep(cart, heap)
                          /\ objects'[o].carts[c].createdAt = m[c].createdAt
                          /\ last'.cart = Deep(cart, heap)
     /\ \A o \in DOMAIN objects :
          (/\ last.op = "updateCart" /\ last.status = "ok"
           /\ last.cartId \in DOMAIN objects[o].carts
           /\ Deep(objects[o].carts[last.cartId].cart, heap) = last.cart
           /\ MockGetCart(o, last.cartId))
            => /\ last'.status = "ok"
               /\ last'.cart = last.cart]_vars

\* an updateCart has just replaced, at the boundary instant createdAt + TTL, a
\* cart by one with other amounts and another createdAt; the anchor is the
\* one the entry had
C32_Witness ==
  /\ last.op = "updateCart" /\ last.status = "ok"
  /\ last.cart.subtotal = 10000
  /\ \E o \in DOMAIN objects :
       /\ last.cartId \in DOMAIN objects[o].carts
       /\ objects[o].carts[last.cartId].cart.subtotal = 10000
       /\ objects[o].carts[last.cartId].createdAt # last.cart.createdAt
       /\ now = objects[o].carts[last.cartId].createdAt + objects[o].ttlMinutes
       /\ objects[o].ttlMinutes > 0

\* C33: createCart(cart) on a store sets the entry of cart.cartId, new or
\* not, to the cart, anchored at the cart's own createdAt whatever the
\* instant of the call, and touches no other entry; a cart put again with
\* the createdAt the entry is anchored at leaves the anchor where it was;
\* Count grows by one when the id was absent and not at all otherwise; and a
\* getCart that follows the put of a cart whose createdAt + TTL has passed
\* fails with Expired.
C33_StorePut ==
  [][/\ \A o \in DOMAIN objects : \A cart \in StoreCarts(now) :
          MockCreateCart(o, cart)
            => LET m == objects[o].carts
                   c == cart.cartId
               IN /\ last'.status = "ok"
                  /\ last'.cart = Deep(cart, heap)
                  /\ DOMAIN objects'[o].carts = DOMAIN m \cup {c}
                  /\ objects'[o].carts[c].cart = cart
                  /\ objects'[o].carts[c].createdAt = cart.createdAt
                  /\ \A x \in DOMAIN m \ {c} : objects'[o].carts[x] = m[x]
                  /\ \A p \in DOMAIN objects \ {o} : objects'[p] = objects[p]
                  /\ (c \in DOMAIN m /\ m[c].createdAt = cart.createdAt)
                       => objects'[o].carts[c].createdAt = m[c].createdAt
                  /\ cartCount(o)' = cartCount(o) + (IF c \in DOMAIN m THEN 0 ELSE 1)
     /\ \A o \in DOMAIN objects :
          (/\ last.op = "createCart"
           /\ last.cartId \in DOMAIN objects[o].carts
           /\ Deep(objects[o].carts[last.cartId].cart, heap) = last.cart
           /\ MockGetCart(o, last.cartId))
            => IF now > last.cart.createdAt + objects[o].ttlMinutes
               THEN last'.status = "Expired" /\ last'.cartId \notin DOMAIN objects'[o].carts
               ELSE last'.status = "ok" /\ last'.cart = last.cart]_vars

\* a cart made at an earlier instant, its createdAt + TTL already passed, has
\* just been put in a store: its entry, the only one, is anchored at the
\* cart's createdAt
C33_Witness ==
  /\ last.op = "createCart" /\ last.status = "ok"
  /\ calls = 3
  /\ Len(objects) = 1
  /\ cartCount(1) = 1
  /\ last.cartId \in DOMAIN objects[1].carts
  /\ objects[1].carts[last.cartId].createdAt = last.cart.createdAt
  /\ now > last.cart.createdAt + objects[1].ttlMinutes

\* C34: a step of a CartService call addressed to cart id A, successful or
\* not, leaves the entry of every other id B as it was: present or absent,
\* its cart, the items of its cart and its expiration anchor. Only the sweep
\* may change the entries of several ids in one step.
C34_CartIsolation ==
  [][/\ \A k \in Callers :
          pc[k] # "idle" /\ pc'[k] = "idle" => last'.cartId = local[k].cart.cartId
     /\ last'.op # "cleanupExpiredCarts"
          => \A B \in (DOMAIN carts \cup DOMAIN carts') \ {last'.cartId} :
               /\ B \in DOMAIN carts /\ B \in DOMAIN carts'
               /\ carts'[B] = carts[B]
               /\ Deep(carts'[B].cart, heap') = Deep(carts[B].cart, heap)]_vars

\* a getCart of cart 1 has just failed with Expired and removed its entry;
\* cart 2, expired as well, is still stored with its item
C34_Witness ==
  /\ last.op = "getCart" /\ last.status = "Expired" /\ last.cartId = 1
  /\ DOMAIN carts = {2}
  /\ ExpiredInStore(2)
  /\ Len(StoredItems(2)) = 1

\* the fields a mutation has no business with
SameSession(a, b) ==
  /\ a.cartId = b.cartId
  /\ a.createdAt = b.createdAt
  /\ a.expiresAt = b.expiresAt
  /\ a.metadata = b.metadata

\* the identity of an item: everything but quantity and totalPrice
SameLine(a, b) ==
  /\ a.itemId = b.itemId
  /\ a.addedAt = b.addedAt
  /\ a.product = b.product
  /\ a.unitPrice = b.unitPrice

\* C35: a successful addItem, removeItem, updateItemQuantity or clearCart
\* returns and stores a cart with the cartId, createdAt, expiresAt and
\* metadata of the cart it worked on and of the entry it replaces; the item a
\* merging addItem or an updateItemQuantity targets keeps its itemId,
\* addedAt, product and unitPrice; and every other item of the cart keeps all
\* its fields (after a removeItem, one place earlier when it came after the
\* removed item).
C35_MutationFrame ==
  [][\A k \in Callers :
       (pc[k] \in Mutators /\ Resumed(k, pc[k]) /\ last'.status = "ok")
         => LET before == Deep(local[k].cart, heap)
                after == last'.cart
                c == before.cartId
                idx == IF pc[k] = "addItem"
                       THEN FindProduct(before.items, local[k].args.product.productId)
                       ELSE IF pc[k] = "clearCart" THEN 0
                       ELSE FindItem(before.items, local[k].args.itemId)
            IN /\ SameSession(after, before)
               /\ SameSession(carts'[c].cart, carts[c].cart)
               /\ Deep(carts'[c].cart, heap') = after
               /\ carts'[c].createdAt = carts[c].createdAt
               /\ pc[k] = "addItem"
                    => /\ \A j \in 1..Len(before.items) :
                            IF j = idx THEN SameLine(after.items[j], before.items[j])
                            ELSE after.items[j] = before.items[j]
                       /\ Len(after.items) = Len(before.items) + (IF idx = 0 THEN 1 ELSE 0)
               /\ pc[k] = "updateItemQuantity"
                    => /\ Len(after.items) = Len(before.items)
                       /\ \A j \in 1..Len(before.items) :
                            IF j = idx THEN SameLine(after.items[j], before.items[j])
                            ELSE after.items[j] = before.items[j]
               /\ pc[k] = "removeItem"
                    => /\ Len(after.items) = Len(before.items) - 1
                       /\ \A j \in 1..Len(before.items) :
                            /\ j < idx => after.items[j] = before.items[j]
                            /\ j > idx => after.items[j - 1] = before.items[j]]_vars

\* an updateItemQuantity, at a later instant than the cart's creation, has
\* just set the first of two items to two units: the second item, the item's
\* price and the cart's createdAt and expiresAt are as they were
C35_Witness ==
  /\ last.op = "updateItemQuantity" /\ last.status = "ok"
  /\ Len(last.cart.items) = 2
  /\ last.cart.items[1].quantity = 2
  /\ last.cart.items[1].unitPrice = last.cart.items[1].product.price
  /\ last.cart.items[2].quantity = 1
  /\ last.cart.createdAt < last.cart.updatedAt
  /\ last.cart.expiresAt = last.cart.createdAt + engineTtl
  /\ last.cartId \in DOMAIN carts
  /\ carts[last.cartId].createdAt = last.cart.createdAt

\* C36: the updatedAt of a stored cart changes only in a step that completes
\* a successful addItem, removeItem, updateItemQuantity or clearCart on that
\* cart, which sets it to the current time; it never decreases and is never
\* before createdAt; createCart sets updatedAt = createdAt; getCart,
\* deleteCart of another id and every failed call leave it as it was.
C36_UpdatedAt ==
  [][/\ \A c \in DOMAIN carts \cap DOMAIN carts' :
          /\ carts'[c].cart.updatedAt >= carts[c].cart.updatedAt
          /\ carts'[c].cart.updatedAt # carts[c].cart.updatedAt
               => /\ last'.op \in Mutators
                  /\ last'.status = "ok"
                  /\ last'.cartId = c
     /\ \A c \in DOMAIN carts' : carts'[c].cart.updatedAt >= carts'[c].cart.createdAt
     /\ (last'.op \in Mutators /\ last'.status = "ok")
          => /\ last'.cart.updatedAt = now
             /\ carts'[last'.cartId].cart.updatedAt = now
     /\ last'.op = "createCart"
          => /\ last'.cart.updatedAt = last'.cart.createdAt
             /\ carts'[last'.cartId].cart.updatedAt = carts'[last'.cartId].cart.createdAt]_vars

\* getCart has just returned a cart that was changed at a later instant than
\* its creation: updatedAt is the instant of that change
C36_Witness ==
  /\ last.op = "getCart" /\ last.status = "ok"
  /\ last.cart.createdAt < last.cart.updatedAt
  /\ last.cart.updatedAt = now
  /\ Len(last.cart.items) = 1
  /\ carts[last.cartId].cart.updatedAt = last.cart.updatedAt

\* how many items carry the pair <<unitPrice, quantity>>
Carrying(items, pair) ==
  Cardinality({i \in 1..Len(items) : <<items[i].unitPrice, items[i].quantity>> = pair})

\* the two lists carry the same (unitPrice, quantity) pairs, each as often
SamePairs(a, b) ==
  /\ Len(a) = Len(b)
  /\ \A i \in 1..Len(a) :
       Carrying(a, <<a[i].unitPrice, a[i].quantity>>)
         = Carrying(b, <<a[i].unitPrice, a[i].quantity>>)

\* C37: the subtotal, tax and total of a stored cart are a function of the
\* (unitPrice, quantity) pairs of its items alone, whatever calls produced
\* them and in whatever order they stand: two stored carts whose items carry
\* the same pairs have the same subtotal, the same tax and the same total.
C37_HistoryIndependent ==
  \A c \in DOMAIN carts : \A d \in DOMAIN carts :
    SamePairs(StoredItems(c), StoredItems(d))
      => /\ carts[c].cart.subtotal = carts[d].cart.subtotal
         /\ carts[c].cart.tax = carts[d].cart.tax
         /\ carts[c].cart.total = carts[d].cart.total

\* the entries of object o whose TTL has elapsed
Elapsed(o) ==
  {c \in DOMAIN objects[o].carts :
     isExpired(objects[o].carts[c], now, objects[o].ttlMinutes)}

\* 1 if the condition holds, else 0
Bit(b) == IF b THEN 1 ELSE 0

\* C38: getCartCount is the number of ids put and not removed since: a
\* createCart adds one unless the id is already held; a deleteCart of a held
\* id takes one; a getCart or an updateCart takes one exactly when it finds
\* its entry with its TTL elapsed; a run of the sweep takes one per entry whose
\* TTL has elapsed; clearAllCarts leaves 0; the passing of time alone, and
\* every call on another object or on the class, leaves the count as it is,
\* so an entry whose TTL has elapsed is counted until it is accessed or swept.
C38_Count ==
  [][\A o \in DOMAIN objects :
       /\ \A cart \in StoreCarts(now) :
            /\ MockCreateCart(o, cart)
                 => cartCount(o)' = cartCount(o)
                                      + Bit(cart.cartId \notin DOMAIN objects[o].carts)
            /\ MockUpdateCart(o, cart)
                 => cartCount(o)' = cartCount(o) - Bit(cart.cartId \in Elapsed(o))
       /\ \A cartId \in UuidShaped :
            /\ MockDeleteCart(o, cartId)
                 => cartCount(o)' = cartCount(o)
                                      - Bit(cartId \in DOMAIN objects[o].carts)
            /\ MockGetCart(o, cartId)
                 => cartCount(o)' = cartCount(o) - Bit(cartId \in Elapsed(o))
       /\ CleanupTimer(o) => cartCount(o)' = cartCount(o) - Cardinality(Elapsed(o))
       /\ ClearAllCarts(o) => cartCount(o)' = 0
       /\ (\/ Tick
           \/ ResetInstance
           \/ Destroy(o)
           \/ \E ttlMinutes \in TtlInputs : GetInstance(ttlMinutes)
           \/ \E ttlMinutes \in TtlInputs : \E enableAutoCleanup \in BOOLEAN :
                NewClient(ttlMinutes, enableAutoCleanup)
           \/ \E p \in DOMAIN objects \ {o} : objects'[p] # objects[p])
            => cartCount(o)' = cartCount(o)
    ]_vars

\* time has passed and an object counts two entries, one whose TTL has elapsed
\* and that nothing has touched since, and one that is live
C38_Witness ==
  /\ last = NoOutcome
  /\ \E o \in DOMAIN objects :
       /\ cartCount(o) = 2
       /\ Cardinality(Elapsed(o)) = 1

\* C39: while the class holds an instance, getInstance returns that same
\* object whatever TTL it is given, and changes neither the object (its TTL
\* and its carts stay) nor any other; only resetInstance makes the class
\* forget it, and no other call changes which object the class holds; the
\* getInstance that follows a resetInstance returns an object that did not
\* exist before, holding no carts, and leaves the carts of the objects that
\* existed where they are.
C39_SharedInstance ==
  [][/\ \A ttlMinutes \in TtlInputs :
          GetInstance(ttlMinutes)
            => IF instance # 0
               THEN instance' = instance /\ objects' = objects
               ELSE /\ instance' \notin DOMAIN objects
                    /\ instance' \in DOMAIN objects'
                    /\ objects'[instance'].carts = << >>
                    /\ objects'[instance'].ttlMinutes = ttlMinutes
                    /\ \A o \in DOMAIN objects : objects'[o] = objects[o]
     /\ ResetInstance => instance' = 0 /\ objects' = objects
     /\ instance' # instance
          => \/ ResetInstance
             \/ instance = 0 /\ \E ttlMinutes \in TtlInputs : GetInstance(ttlMinutes)
    ]_vars

\* the class holds its second instance, built by the getInstance that followed
\* the resetInstance that stopped the timer of the first: it holds no carts,
\* and the first one still holds a cart
C39_Witness ==
  /\ last.op = "getInstance"
  /\ instance = 2
  /\ objects[1].cleanupInterval = 1 /\ 1 \notin timers
  /\ objects[2].carts = << >>
  /\ objects[1].carts # << >>
====
